---- MODULE Spec2Model ----
(***************************************************************************)
(* Model of the synthetic data generation pipeline of the repository:      *)
(*   DataGenerator           (consolidated-data-stack/data_generation/main.py) *)
(*   TelemetryGenerator      (.../generators/telemetry_generator.py)        *)
(*   CustomerGenerator, TitleGenerator, CampaignGenerator                   *)
(*                                                                         *)
(* The specifications of the module share its variables; a specification   *)
(* leaves the components it does not run idle:                             *)
(*   Spec         one run of DataGenerator.generate_all_data               *)
(*   SpecDet      two runs of generate_all_data with the same seed         *)
(*   SpecBatch    the batch arithmetic of generate_all_data                *)
(*   SpecTools    generate_all_data followed by the S3 uploader            *)
(*   SpecTel      TelemetryGenerator.generate_telemetry_events             *)
(*   SpecAffinity the same on the customer table of generate_all_data      *)
(*   SpecSession  TelemetryGenerator._generate_viewing_session             *)
(*   SpecHw       TelemetryGenerator._generate_hourly_weights              *)
(*   SpecGen      the customer, title and campaign generators              *)
(*   SpecCampaign one call of CampaignGenerator.generate_campaign          *)
(*   SpecUp       S3Uploader.upload_directory                              *)
(*   SpecMem      memory_manager.extract_session_info                      *)
(*   SpecSecrets  SecretsManager.get_secret and clear_cache                *)
(*   SpecMsk      the MSK configuration custom resource handler            *)
(*   SpecPath     sanitize_path of the Rekognition MCP server              *)
(*   SpecToken    MCPManager._get_bearer_token                             *)
(*   SpecProducer send_to_msk_producer                                     *)
(*   SpecNova     NovaActMCPServer                                         *)
(***************************************************************************)
EXTENDS Integers, Sequences, FiniteSets, TLC

(***************************************************************************)
(* Bounds of the model                                                     *)
(***************************************************************************)
MaxEvents == 2         \* --telemetry is drawn from 0..MaxEvents
SmallBatch == 1        \* scaled batch size that makes a run have several batches
MaxTicks == 1          \* how often the wall clock advances (by a day)
MaxDetCount == 1       \* the four counts of the two-run specification

\* the values of --customers, --titles and --campaigns that are enumerated
CustomerCounts == {0, 1}
TitleCounts == {0, 1}
CampaignCounts == {0, 1}
\* the values str(uuid.uuid4())[:8] is drawn from
Uuids == {0, 1}

(***************************************************************************)
(* Program constants                                                       *)
(***************************************************************************)
batch_size_const == 1000000      \* main.py: batch_size = 1000000
date_range_days == 30            \* generate_telemetry_events(..., date_range_days=30)

\* the values of --seed that are enumerated
Seeds == {7, 42}

(***************************************************************************)
(* String formatting: f"{n:0wd}" and strftime("%Y" / "%m" / "%d" / "%H")   *)
(* produce the decimal digits of n, left-filled with zeros to width w      *)
(* (more digits when n needs them).  A string of digits is a sequence.     *)
(***************************************************************************)
RECURSIVE Digits(_)
Digits(n) == IF n < 10 THEN <<n>> ELSE Append(Digits(n \div 10), n % 10)

ZeroPad(n, w) ==
    LET d == Digits(n)
    IN  IF Len(d) >= w THEN d ELSE [k \in 1..(w - Len(d)) |-> 0] \o d

(***************************************************************************)
(* Calendar arithmetic of datetime - timedelta(days=k)                     *)
(***************************************************************************)
IsLeap(y) == (y % 4 = 0 /\ y % 100 # 0) \/ y % 400 = 0

DaysInMonth(y, m) ==
    IF m = 2 THEN (IF IsLeap(y) THEN 29 ELSE 28)
    ELSE IF m \in {4, 6, 9, 11} THEN 30 ELSE 31

RECURSIVE MinusDays(_, _)
MinusDays(dt, k) ==
    IF k = 0 THEN dt
    ELSE IF dt.day > 1 THEN MinusDays([dt EXCEPT !.day = dt.day - 1], k - 1)
    ELSE LET pm == IF dt.month = 1 THEN 12 ELSE dt.month - 1
             py == IF dt.month = 1 THEN dt.year - 1 ELSE dt.year
         IN  MinusDays([dt EXCEPT !.year = py, !.month = pm,
                                  !.day = DaysInMonth(py, pm)], k - 1)

PlusDay(dt) ==
    IF dt.day < DaysInMonth(dt.year, dt.month) THEN [dt EXCEPT !.day = dt.day + 1]
    ELSE IF dt.month < 12 THEN [dt EXCEPT !.month = dt.month + 1, !.day = 1]
    ELSE [dt EXCEPT !.year = dt.year + 1, !.month = 1, !.day = 1]

\* datetime.now() when the process starts
StartNow == [year |-> 2026, month |-> 1, day |-> 1, hour |-> 10, minute |-> 15, second |-> 0]

\* the order of datetimes: a <= b
DayKey(ts) == (ts.year * 13 + ts.month) * 32 + ts.day
SecondKey(ts) == (ts.hour * 60 + ts.minute) * 60 + ts.second
TsLeq(a, b) ==
    \/ DayKey(a) < DayKey(b)
    \/ DayKey(a) = DayKey(b) /\ SecondKey(a) <= SecondKey(b)

(***************************************************************************)
(* The draws of the seeded generators that the model enumerates            *)
(***************************************************************************)
OffsetChoices == {0, date_range_days}   \* day offsets of fake.date_time_between
HourChoices == {7, 20}                  \* np.random.choice(24, p=hourly_weights)
MinuteChoices == {30}                   \* random.randint(0, 59)
SecondChoices == {5}                    \* random.randint(0, 59)

VARIABLES
    \* DataGenerator
    pc,                     \* position in generate_all_data
    seed,                   \* self.seed
    num_customers, num_titles, num_telemetry_events, num_campaigns,
    batch_size,             \* batch_size
    customers_df, titles_df, campaigns_df,
    i,                      \* batch index of the telemetry loop
    events,                 \* rows of batch i: the list being generated, then the sorted frame
    groups,                 \* groupby result of batch i still to be written
    requested,              \* the events_in_batch values passed to the generator
    disk,                   \* files under output_dir: path -> content
    written,                \* files written by this run, in order
    now,                    \* wall clock
    ticks,
    run, reruns, prev, tape,
    \* TelemetryGenerator on its own
    tel,
    \* _generate_viewing_session
    sess,
    \* CustomerGenerator / TitleGenerator / CampaignGenerator on their own
    gen,
    \* S3Uploader.upload_directory
    up,
    \* _generate_hourly_weights
    hw,
    \* extract_session_info
    mem,
    \* SecretsManager
    sec,
    \* the MSK configuration custom resource
    msk,
    \* sanitize_path
    pth,
    \* MCPManager._get_bearer_token
    tok,
    \* send_to_msk_producer
    prod,
    \* NovaActMCPServer
    nova

pipeVars == <<pc, seed, num_customers, num_titles, num_telemetry_events, num_campaigns,
              batch_size, customers_df, titles_df, campaigns_df, i, events, groups,
              requested, disk, written, now, ticks, run, reruns, prev, tape>>
svcVars == <<sec, msk, pth, tok, prod, nova>>
auxVars == <<gen, up, hw, mem, svcVars>>
oldVars == <<pipeVars, tel, sess, gen, up, hw, mem>>
vars == <<pipeVars, tel, sess, auxVars>>

(***************************************************************************)
(* File paths below output_dir                                             *)
(***************************************************************************)
CustomersFile == <<"customers", "customers.parquet">>
TitlesFile == <<"titles", "titles.parquet">>
CampaignsFile == <<"campaigns", "campaigns.parquet">>
MetadataFile == <<"metadata.json">>

\* variant: the file name without the batch index
TelemetryFileNoBatch(key, b) ==
    <<"telemetry", <<"year=", key[1]>>, <<"month=", key[2]>>, <<"day=", key[3]>>,
      <<"hour=", key[4]>>, <<"batch_", ZeroPad(0, 4), ".parquet">> >>

\* f'telemetry/year={year}/month={month}/day={day}/hour={hour}/batch_{i:04d}.parquet'
TelemetryFile(key, b) ==
    <<"telemetry", <<"year=", key[1]>>, <<"month=", key[2]>>, <<"day=", key[3]>>,
      <<"hour=", key[4]>>, <<"batch_", ZeroPad(b, 4), ".parquet">> >>

IsTelemetryPath(p) == Len(p) = 6 /\ p[1] = "telemetry"

\* the file system after writing content to path (an existing file is replaced)
WriteFile(d, path, content) ==
    [p \in (DOMAIN d) \cup {path} |-> IF p = path THEN content ELSE d[p]]

(***************************************************************************)
(* generate_all_data: the batch arithmetic                                 *)
(***************************************************************************)
\* variant: the division without the round-up
NumBatchesFloor(n, bs) == n \div bs

\* num_batches = (num_telemetry_events + batch_size - 1) // batch_size
NumBatches(n, bs) == (n + bs - 1) \div bs

\* variant: every batch asks for a full batch
EventsInBatchFull(n, bs, b) == bs

\* events_in_batch = min(batch_size, num_telemetry_events - i * batch_size)
EventsInBatch(n, bs, b) == IF bs <= n - b * bs THEN bs ELSE n - b * bs

(***************************************************************************)
(* The generators' rows                                                    *)
(***************************************************************************)
\* variant: the id without the row index
CustomerIdNoIndex(u, idx) == <<"CUST_", u, "_", ZeroPad(0, 6)>>

\* f"CUST_{str(uuid.uuid4())[:8]}_{customer_index:06d}"
CustomerId(u, idx) == <<"CUST_", u, "_", ZeroPad(idx, 6)>>
\* f"TITLE_{str(uuid.uuid4())[:8]}_{title_index:06d}"
TitleId(u, idx) == <<"TITLE_", u, "_", ZeroPad(idx, 6)>>
\* f"CAMP_{str(uuid.uuid4())[:8]}_{campaign_index:06d}"
CampaignId(u, idx) == <<"CAMP_", u, "_", ZeroPad(idx, 6)>>
\* f"EVENT_{str(uuid.uuid4())[:8]}"
EventId(u) == <<"EVENT_", u>>

\* a draw of a seeded generator: free in the first run; a run with the same
\* seed draws the value the first run drew at the same place
Seeded(kind, idx, S) == IF run = 1 THEN S ELSE {tape[kind][idx]}

Record(kind, v) == IF run = 1 THEN [tape EXCEPT ![kind] = Append(@, v)] ELSE tape

\* variant: the filter on is_active left out
AllCustomers(df) == df

\* self.customers_df[self.customers_df['is_active']]
ActiveCustomers(df) == SelectSeq(df, LAMBDA c : c.is_active)

\* _generate_timestamp: a date between now - date_range_days and now, with
\* the hour, minute and second replaced by separately drawn values
GenerateTimestamp(clock, off, h, m, s) ==
    [MinusDays(clock, off) EXCEPT !.hour = h, !.minute = m, !.second = s]


(***************************************************************************)
(* generate_telemetry_events: df.sort_values('event_timestamp')            *)
(***************************************************************************)
InsertByTimestamp(sorted, e) ==
    LET n == Cardinality({k \in 1..Len(sorted) :
                             TsLeq(sorted[k].event_timestamp, e.event_timestamp)})
    IN  SubSeq(sorted, 1, n) \o <<e>> \o SubSeq(sorted, n + 1, Len(sorted))

RECURSIVE SortByTimestamp(_)
SortByTimestamp(s) ==
    IF s = <<>> THEN <<>>
    ELSE InsertByTimestamp(SortByTimestamp(SubSeq(s, 1, Len(s) - 1)), s[Len(s)])

(***************************************************************************)
(* generate_all_data: partition columns, timestamp conversion, groupby     *)
(***************************************************************************)
PartitionColumns == {"_year", "_month", "_day", "_hour"}

\* dt.strftime('%Y-%m-%d %H:%M:%S')
StrfTime(ts) ==
    <<ZeroPad(ts.year, 4), "-", ZeroPad(ts.month, 2), "-", ZeroPad(ts.day, 2), " ",
      ZeroPad(ts.hour, 2), ":", ZeroPad(ts.minute, 2), ":", ZeroPad(ts.second, 2)>>

\* lines 70-76: the four helper columns are added, then event_timestamp is
\* replaced by its string form
WithPartitionColumns(e) ==
    LET ts == e.event_timestamp
    IN  [e EXCEPT !.event_timestamp = StrfTime(ts)]
        @@ ("_year" :> ZeroPad(ts.year, 4)) @@ ("_month" :> ZeroPad(ts.month, 2))
        @@ ("_day" :> ZeroPad(ts.day, 2)) @@ ("_hour" :> ZeroPad(ts.hour, 2))

\* part_df.drop(['_year', '_month', '_day', '_hour'], axis=1)
DropColumns(r, cols) == [f \in (DOMAIN r) \ cols |-> r[f]]

GroupKey(r) == <<r["_year"], r["_month"], r["_day"], r["_hour"]>>

RECURSIVE DigitsValue(_)
DigitsValue(d) ==
    IF d = <<>> THEN 0 ELSE DigitsValue(SubSeq(d, 1, Len(d) - 1)) * 10 + d[Len(d)]

\* the order of the group keys (strings of equal width compare as their numbers)
KeyOrder(k) ==
    ((DigitsValue(k[1]) * 100 + DigitsValue(k[2])) * 100 + DigitsValue(k[3])) * 100
        + DigitsValue(k[4])

RECURSIVE SortedKeys(_)
SortedKeys(K) ==
    IF K = {} THEN <<>>
    ELSE LET least == CHOOSE k \in K : \A o \in K : KeyOrder(k) <= KeyOrder(o)
         IN  <<least>> \o SortedKeys(K \ {least})

\* telemetry_df.groupby(['_year', '_month', '_day', '_hour']): the groups in
\* key order, each with its rows in the order of the frame
GroupBy(df) ==
    LET keys == SortedKeys({GroupKey(df[k]) : k \in 1..Len(df)})
    IN  [g \in 1..Len(keys) |->
            [key |-> keys[g], rows |-> SelectSeq(df, LAMBDA r : GroupKey(r) = keys[g])]]

\* the frame a partition file receives
PartitionFrame(rows) == [k \in 1..Len(rows) |-> DropColumns(rows[k], PartitionColumns)]

\* variant: the output directory is emptied before a file is written
SaveToParquetCleared(d, filename, df) == WriteFile(<<>>, filename, df)

\* _save_to_parquet: df.to_parquet(os.path.join(output_dir, filename))
SaveToParquet(d, filename, df) == WriteFile(d, filename, df)


(***************************************************************************)
(* DataGenerator.generate_all_data                                          *)
(*                                                                         *)
(* pc: "customers" -> "titles" -> "telemetry" <-> "generating" -> "writing" *)
(*     -> "campaigns" -> "metadata" -> "done"; "failed" when an exception   *)
(*     leaves generate_all_data.                                           *)
(***************************************************************************)
\* variant: the campaigns are generated before the telemetry
NextStageCampaignsFirst(stage) ==
    CASE stage = "customers" -> "titles"
      [] stage = "titles" -> "campaigns"
      [] stage = "campaigns" -> "telemetry"
      [] stage = "telemetry" -> "metadata"
      [] stage = "metadata" -> "done"

\* the stage generate_all_data enters after a stage: customers, titles, the
\* telemetry loop, campaigns, metadata
NextStage(stage) ==
    CASE stage = "customers" -> "titles"
      [] stage = "titles" -> "telemetry"
      [] stage = "telemetry" -> "campaigns"
      [] stage = "campaigns" -> "metadata"
      [] stage = "metadata" -> "done"

NoTape == [customers |-> <<>>, events |-> <<>>]
NoPrev == [customers |-> <<>>, titles |-> <<>>, campaigns |-> <<>>, telemetry |-> <<>>]
SessIdle == [pc |-> "idle"]
TelIdle == [pc |-> "idle"]
GenIdle == [pc |-> "idle"]
UpIdle == [pc |-> "idle", files_to_upload |-> {}]
HwIdle == [pc |-> "idle"]
MemIdle == [pc |-> "idle"]
SecIdle == [pc |-> "idle"]
MskIdle == [pc |-> "idle"]
PthIdle == [pc |-> "idle"]
TokIdle == [pc |-> "idle"]
ProdIdle == [pc |-> "idle"]
NovaIdle == [pc |-> "idle"]
SvcIdle ==
    /\ sec = SecIdle /\ msk = MskIdle /\ pth = PthIdle
    /\ tok = TokIdle /\ prod = ProdIdle /\ nova = NovaIdle

\* the components that are not running
AuxIdle == gen = GenIdle /\ up = UpIdle /\ hw = HwIdle /\ mem = MemIdle /\ SvcIdle

\* DataGenerator(output_dir, seed) followed by the call of generate_all_data
InitRun(C, T, E, K, sizes, again) ==
    /\ pc = "customers"
    /\ seed \in Seeds
    /\ num_customers \in C
    /\ num_titles \in T
    /\ num_telemetry_events \in E
    /\ num_campaigns \in K
    /\ batch_size \in sizes
    /\ customers_df = <<>> /\ titles_df = <<>> /\ campaigns_df = <<>>
    /\ i = 0 /\ events = <<>> /\ groups = <<>> /\ requested = <<>>
    /\ disk = <<>>
    /\ written = <<>>
    /\ now = StartNow /\ ticks = 0
    /\ run = 1 /\ reruns = again /\ prev = NoPrev /\ tape = NoTape
    /\ tel = TelIdle /\ sess = SessIdle
    /\ AuxIdle

\* the wall clock advances while the program runs or between two runs
Tick ==
    /\ ticks < MaxTicks
    /\ pc # "idle"
    /\ now' = PlusDay(now)
    /\ ticks' = ticks + 1
    /\ UNCHANGED <<pc, seed, num_customers, num_titles, num_telemetry_events, num_campaigns,
                   batch_size, customers_df, titles_df, campaigns_df, i, events, groups,
                   requested, disk, written, run, reruns, prev, tape, tel, sess, auxVars>>

\* CustomerGenerator.generate_customer(customer_index), called by generate_customers
GenerateCustomer ==
    /\ pc = "customers"
    /\ Len(customers_df) < num_customers
    /\ \E u \in Uuids, a \in Seeded("customers", Len(customers_df) + 1, BOOLEAN) :
          /\ customers_df' = Append(customers_df,
                 [customer_id |-> CustomerId(u, Len(customers_df)), is_active |-> a])
          /\ tape' = Record("customers", a)
    /\ UNCHANGED <<pc, seed, num_customers, num_titles, num_telemetry_events, num_campaigns,
                   batch_size, titles_df, campaigns_df, i, events, groups, requested, disk,
                   written, now, ticks, run, reruns, prev, tel, sess, auxVars>>

\* self._save_to_parquet(customers_df, 'customers/customers.parquet')
SaveCustomers ==
    /\ pc = "customers"
    /\ Len(customers_df) = num_customers
    /\ disk' = SaveToParquet(disk, CustomersFile, customers_df)
    /\ written' = Append(written, [path |-> CustomersFile, content |-> customers_df])
    /\ pc' = NextStage("customers")
    /\ UNCHANGED <<seed, num_customers, num_titles, num_telemetry_events, num_campaigns,
                   batch_size, customers_df, titles_df, campaigns_df, i, events, groups,
                   requested, now, ticks, run, reruns, prev, tape, tel, sess, auxVars>>

\* TitleGenerator.generate_title(title_index), called by generate_titles
GenerateTitle ==
    /\ pc = "titles"
    /\ Len(titles_df) < num_titles
    /\ \E u \in Uuids :
          titles_df' = Append(titles_df, [title_id |-> TitleId(u, Len(titles_df))])
    /\ UNCHANGED <<pc, seed, num_customers, num_titles, num_telemetry_events, num_campaigns,
                   batch_size, customers_df, campaigns_df, i, events, groups, requested, disk,
                   written, now, ticks, run, reruns, prev, tape, tel, sess, auxVars>>

\* self._save_to_parquet(titles_df, 'titles/titles.parquet')
SaveTitles ==
    /\ pc = "titles"
    /\ Len(titles_df) = num_titles
    /\ disk' = SaveToParquet(disk, TitlesFile, titles_df)
    /\ written' = Append(written, [path |-> TitlesFile, content |-> titles_df])
    /\ pc' = NextStage("titles")
    /\ UNCHANGED <<seed, num_customers, num_titles, num_telemetry_events, num_campaigns,
                   batch_size, customers_df, titles_df, campaigns_df, i, events, groups,
                   requested, now, ticks, run, reruns, prev, tape, tel, sess, auxVars>>

\* for i in range(num_batches): events_in_batch = ...;
\*     telemetry_gen.generate_telemetry_events(events_in_batch)
StartBatch ==
    /\ pc = "telemetry"
    /\ i < NumBatches(num_telemetry_events, batch_size)
    /\ requested' = Append(requested, EventsInBatch(num_telemetry_events, batch_size, i))
    /\ events' = <<>>
    /\ pc' = "generating"
    /\ UNCHANGED <<seed, num_customers, num_titles, num_telemetry_events, num_campaigns,
                   batch_size, customers_df, titles_df, campaigns_df, i, groups, disk,
                   written, now, ticks, run, reruns, prev, tape, tel, sess, auxVars>>

\* one iteration of the loop of generate_telemetry_events: _generate_single_event
\* (the genre affinity of the title draw is modelled in SpecTel; here any
\* title of the table may be drawn)
GenerateBatchEvent ==
    /\ pc = "generating"
    /\ Len(events) < requested[Len(requested)]
    /\ LET active == ActiveCustomers(customers_df)
           n == i * batch_size + Len(events) + 1
       IN  /\ active # <<>>
           /\ titles_df # <<>>
           /\ \E u \in Uuids,
                 d \in Seeded("events", n,
                         [c : 1..Len(active), t : 1..Len(titles_df), off : OffsetChoices,
                          hour : HourChoices, minute : MinuteChoices, second : SecondChoices]) :
                 /\ events' = Append(events,
                        [event_id |-> EventId(u),
                         customer_id |-> active[d.c].customer_id,
                         title_id |-> titles_df[d.t].title_id,
                         event_timestamp |->
                             GenerateTimestamp(now, d.off, d.hour, d.minute, d.second)])
                 /\ tape' = Record("events", d)
    /\ UNCHANGED <<pc, seed, num_customers, num_titles, num_telemetry_events, num_campaigns,
                   batch_size, customers_df, titles_df, campaigns_df, i, groups, requested,
                   disk, written, now, ticks, run, reruns, prev, tel, sess, auxVars>>

\* DataFrame.sample(1) raises ValueError on an empty frame: no active customer,
\* or no title in the pool the 80% draw selects (TitlePool, SpecTel)
SamplingFails ==
    /\ pc = "generating"
    /\ Len(events) < requested[Len(requested)]
    /\ pc' = "failed"
    /\ UNCHANGED <<seed, num_customers, num_titles, num_telemetry_events, num_campaigns,
                   batch_size, customers_df, titles_df, campaigns_df, i, events, groups,
                   requested, disk, written, now, ticks, run, reruns, prev, tape, tel, sess, auxVars>>

\* generate_telemetry_events returns the sorted frame; generate_all_data adds
\* the partition columns, converts the timestamp and groups the frame
PartitionBatch ==
    /\ pc = "generating"
    /\ Len(events) = requested[Len(requested)]
    /\ LET telemetry_df == SortByTimestamp(events)
           keyed == [k \in 1..Len(telemetry_df) |-> WithPartitionColumns(telemetry_df[k])]
       IN  /\ groups' = GroupBy(keyed)
           /\ events' = telemetry_df
    /\ pc' = "writing"
    /\ UNCHANGED <<seed, num_customers, num_titles, num_telemetry_events, num_campaigns,
                   batch_size, customers_df, titles_df, campaigns_df, i, requested, disk,
                   written, now, ticks, run, reruns, prev, tape, tel, sess, auxVars>>

\* one iteration of the groupby loop: the partition file of the next group
WritePartition ==
    /\ pc = "writing"
    /\ groups # <<>>
    /\ LET g == Head(groups)
           filename == TelemetryFile(g.key, i)
           frame == PartitionFrame(g.rows)
       IN  /\ disk' = SaveToParquet(disk, filename, frame)
           /\ written' = Append(written, [path |-> filename, content |-> frame])
    /\ groups' = Tail(groups)
    /\ UNCHANGED <<pc, seed, num_customers, num_titles, num_telemetry_events, num_campaigns,
                   batch_size, customers_df, titles_df, campaigns_df, i, events, requested,
                   now, ticks, run, reruns, prev, tape, tel, sess, auxVars>>

\* df.to_parquet raises (disk full, permission): the exception leaves
\* generate_all_data; the file being written is absent or truncated
WritePartitionFails ==
    /\ pc = "writing"
    /\ groups # <<>>
    /\ \/ disk' = disk
       \/ disk' = WriteFile(disk, TelemetryFile(Head(groups).key, i), "truncated")
    /\ pc' = "failed_partition"
    /\ UNCHANGED <<seed, num_customers, num_titles, num_telemetry_events, num_campaigns,
                   batch_size, customers_df, titles_df, campaigns_df, i, events, groups,
                   requested, written, now, ticks, run, reruns, prev, tape, tel, sess, auxVars>>

\* the groupby loop of batch i is over: next i
EndBatch ==
    /\ pc = "writing"
    /\ groups = <<>>
    /\ i' = i + 1
    /\ pc' = "telemetry"
    /\ UNCHANGED <<seed, num_customers, num_titles, num_telemetry_events, num_campaigns,
                   batch_size, customers_df, titles_df, campaigns_df, events, groups,
                   requested, disk, written, now, ticks, run, reruns, prev, tape, tel, sess, auxVars>>

\* range(num_batches) is exhausted
EndTelemetry ==
    /\ pc = "telemetry"
    /\ i >= NumBatches(num_telemetry_events, batch_size)
    /\ pc' = NextStage("telemetry")
    /\ UNCHANGED <<seed, num_customers, num_titles, num_telemetry_events, num_campaigns,
                   batch_size, customers_df, titles_df, campaigns_df, i, events, groups,
                   requested, disk, written, now, ticks, run, reruns, prev, tape, tel, sess, auxVars>>

\* CampaignGenerator.generate_campaign(campaign_index), called by generate_campaigns
GenerateCampaign ==
    /\ pc = "campaigns"
    /\ Len(campaigns_df) < num_campaigns
    /\ \E u \in Uuids :
          campaigns_df' = Append(campaigns_df,
                                 [campaign_id |-> CampaignId(u, Len(campaigns_df))])
    /\ UNCHANGED <<pc, seed, num_customers, num_titles, num_telemetry_events, num_campaigns,
                   batch_size, customers_df, titles_df, i, events, groups, requested, disk,
                   written, now, ticks, run, reruns, prev, tape, tel, sess, auxVars>>

\* self._save_to_parquet(campaigns_df, 'campaigns/campaigns.parquet')
SaveCampaigns ==
    /\ pc = "campaigns"
    /\ Len(campaigns_df) = num_campaigns
    /\ disk' = SaveToParquet(disk, CampaignsFile, campaigns_df)
    /\ written' = Append(written, [path |-> CampaignsFile, content |-> campaigns_df])
    /\ pc' = NextStage("campaigns")
    /\ UNCHANGED <<seed, num_customers, num_titles, num_telemetry_events, num_campaigns,
                   batch_size, customers_df, titles_df, campaigns_df, i, events, groups,
                   requested, now, ticks, run, reruns, prev, tape, tel, sess, auxVars>>

\* the dict passed to _generate_metadata
Metadata ==
    [generation_timestamp |-> now, seed |-> seed, num_customers |-> num_customers,
     num_titles |-> num_titles, num_telemetry_events |-> num_telemetry_events,
     num_campaigns |-> num_campaigns]

\* self._generate_metadata({...}): json.dump to metadata.json
GenerateMetadata ==
    /\ pc = "metadata"
    /\ disk' = WriteFile(disk, MetadataFile, Metadata)
    /\ written' = Append(written, [path |-> MetadataFile, content |-> Metadata])
    /\ pc' = NextStage("metadata")
    /\ UNCHANGED <<seed, num_customers, num_titles, num_telemetry_events, num_campaigns,
                   batch_size, customers_df, titles_df, campaigns_df, i, events, groups,
                   requested, now, ticks, run, reruns, prev, tape, tel, sess, auxVars>>

\* a write of customers, titles, campaigns or metadata raises
SaveFails ==
    /\ \/ pc = "customers" /\ Len(customers_df) = num_customers
       \/ pc = "titles" /\ Len(titles_df) = num_titles
       \/ pc = "campaigns" /\ Len(campaigns_df) = num_campaigns
       \/ pc = "metadata"
    /\ pc' = "failed"
    /\ UNCHANGED <<seed, num_customers, num_titles, num_telemetry_events, num_campaigns,
                   batch_size, customers_df, titles_df, campaigns_df, i, events, groups,
                   requested, disk, written, now, ticks, run, reruns, prev, tape, tel, sess, auxVars>>

\* the telemetry rows a run wrote, over all its partition files
TelemetryWritten(w) == SelectSeq(w, LAMBDA f : IsTelemetryPath(f.path))

\* the command is run again with the same options (same seed, same counts,
\* same output directory)
Rerun ==
    /\ pc = "done"
    /\ reruns > 0
    /\ reruns' = reruns - 1
    /\ run' = run + 1
    /\ prev' = [customers |-> customers_df, titles |-> titles_df,
                campaigns |-> campaigns_df, telemetry |-> TelemetryWritten(written)]
    /\ pc' = "customers"
    /\ customers_df' = <<>> /\ titles_df' = <<>> /\ campaigns_df' = <<>>
    /\ i' = 0 /\ events' = <<>> /\ groups' = <<>> /\ requested' = <<>>
    /\ written' = <<>>
    /\ UNCHANGED <<seed, num_customers, num_titles, num_telemetry_events, num_campaigns,
                   batch_size, disk, now, ticks, tape, tel, sess, auxVars>>

Init == InitRun(CustomerCounts, TitleCounts, 0..MaxEvents, CampaignCounts,
                {SmallBatch, batch_size_const}, 0)

Next ==
    \/ GenerateCustomer \/ SaveCustomers
    \/ GenerateTitle \/ SaveTitles
    \/ StartBatch \/ GenerateBatchEvent \/ SamplingFails \/ PartitionBatch
    \/ WritePartition \/ WritePartitionFails \/ EndBatch \/ EndTelemetry
    \/ GenerateCampaign \/ SaveCampaigns
    \/ GenerateMetadata
    \/ SaveFails

Spec == Init /\ [][Next]_vars

InitDet == InitRun(0..MaxDetCount, 0..MaxDetCount, 0..MaxDetCount, 0..MaxDetCount,
                   {SmallBatch, batch_size_const}, 1)

NextDet == Next \/ Tick \/ Rerun

SpecDet == InitDet /\ [][NextDet]_vars


(***************************************************************************)
(* SpecBatch: the telemetry loop of generate_all_data with the program's   *)
(* batch size.  The rows of a batch are not enumerated: of the loop body   *)
(* the model keeps the call of the generator (requested) and the partition *)
(* file of one row of the batch (every batch has at least one row, so it   *)
(* writes at least one file).                                              *)
(***************************************************************************)
MaxBatches == 3

\* values of --telemetry around the multiples of the batch size
BatchInputs ==
    {n \in {b * batch_size_const + d : b \in 0..MaxBatches, d \in {-1, 0, 1, 500000}} : n >= 0}

\* strftime('%Y'), ('%m'), ('%d'), ('%H') of a timestamp
PartitionKey(ts) ==
    <<ZeroPad(ts.year, 4), ZeroPad(ts.month, 2), ZeroPad(ts.day, 2), ZeroPad(ts.hour, 2)>>

InitBatch ==
    /\ pc = "telemetry"
    /\ seed \in Seeds
    /\ num_customers = 1 /\ num_titles = 1 /\ num_campaigns = 0
    /\ num_telemetry_events \in BatchInputs
    /\ batch_size = batch_size_const
    /\ customers_df = <<>> /\ titles_df = <<>> /\ campaigns_df = <<>>
    /\ i = 0 /\ events = <<>> /\ groups = <<>> /\ requested = <<>>
    /\ disk = <<>>
    /\ written = <<>>
    /\ now = StartNow /\ ticks = 0
    /\ run = 1 /\ reruns = 0 /\ prev = NoPrev /\ tape = NoTape
    /\ tel = TelIdle /\ sess = SessIdle
    /\ AuxIdle

\* one iteration of `for i in range(num_batches)`
RunBatch ==
    /\ pc = "telemetry"
    /\ i < NumBatches(num_telemetry_events, batch_size)
    /\ requested' = Append(requested, EventsInBatch(num_telemetry_events, batch_size, i))
    /\ \E off \in OffsetChoices, h \in HourChoices :
          LET filename == TelemetryFile(PartitionKey(GenerateTimestamp(now, off, h, 0, 0)), i)
          IN  /\ disk' = WriteFile(disk, filename, "rows")
              /\ written' = Append(written, [path |-> filename, content |-> "rows"])
    /\ i' = i + 1
    /\ UNCHANGED <<pc, seed, num_customers, num_titles, num_telemetry_events, num_campaigns,
                   batch_size, customers_df, titles_df, campaigns_df, events, groups,
                   now, ticks, run, reruns, prev, tape, tel, sess, auxVars>>

NextBatch == RunBatch \/ EndTelemetry

SpecBatch == InitBatch /\ [][NextBatch]_vars

(***************************************************************************)
(* SpecTel: TelemetryGenerator.generate_telemetry_events on customer and   *)
(* title tables of any content                                             *)
(***************************************************************************)
MaxTelEvents == 2       \* num_events is drawn from 0..MaxTelEvents

\* the table sizes that are enumerated
TelCustomerCounts == {0, 1, 2}
TelTitleCounts == {0, 1, 2}

\* TitleGenerator.genres, and CustomerGenerator.genres, which has genres no
\* title has ('Fantasy', 'Crime', 'Mystery')
TitleGenres == {"Action", "Drama"}
CustomerGenres == TitleGenres \cup {"Fantasy"}

\* random.sample(self.genres, k=random.randint(2, 5)): the lists enumerated
PreferredChoices == {<<"Action", "Drama">>, <<"Action", "Fantasy">>, <<"Drama", "Fantasy">>}

CustomerRows(idx) ==
    [customer_id : {CustomerId(0, idx)}, is_active : BOOLEAN,
     preferred_genres : PreferredChoices]

TitleRows(idx) == [title_id : {TitleId(0, idx)}, genre : TitleGenres]

\* the customer tables and the title tables with n rows
RECURSIVE CustomerTables(_)
CustomerTables(n) ==
    IF n = 0 THEN {<<>>}
    ELSE {Append(t, r) : t \in CustomerTables(n - 1), r \in CustomerRows(n - 1)}

RECURSIVE TitleTables(_)
TitleTables(n) ==
    IF n = 0 THEN {<<>>}
    ELSE {Append(t, r) : t \in TitleTables(n - 1), r \in TitleRows(n - 1)}

\* json.dumps of a list of genres, as the pieces of its text:
\* ["Action", "Drama"]
RECURSIVE JsonItems(_)
JsonItems(list) ==
    IF list = <<>> THEN <<>>
    ELSE <<"\"", Head(list), "\"">>
         \o (IF Tail(list) = <<>> THEN <<>> ELSE <<",", " ">>)
         \o JsonItems(Tail(list))

JsonDumps(list) == <<"[">> \o JsonItems(list) \o <<"]">>

\* json.loads of such a text: the strings between the quotes, in order
JsonLoads(text) == SelectSeq(text, LAMBDA p : p \notin {"[", "]", "\"", ",", " "})

\* isinstance(preferred_genres, str)
IsStr(preferred_genres) == preferred_genres # <<>> /\ Head(preferred_genres) = "["

\* lines 81-83: a JSON-encoded preferred_genres is decoded first
PreferredGenres(customer) ==
    IF IsStr(customer.preferred_genres)
    THEN JsonLoads(customer.preferred_genres)
    ELSE customer.preferred_genres

\* Series.isin(preferred_genres)
IsIn(genre, preferred_genres) ==
    \E k \in 1..Len(preferred_genres) : preferred_genres[k] = genre

\* self.titles_df[self.titles_df['genre'].isin(preferred_genres)]
GenreTitles(titles, preferred_genres) ==
    SelectSeq(titles, LAMBDA t : IsIn(t.genre, preferred_genres))

\* self.titles_df[~self.titles_df['genre'].isin(preferred_genres)]
OtherTitles(titles, preferred_genres) ==
    SelectSeq(titles, LAMBDA t : ~IsIn(t.genre, preferred_genres))

\* variant: the fallback draws from all titles
TitlePoolAnyTitle(titles, preferred_genres, hit) ==
    IF hit /\ Len(GenreTitles(titles, preferred_genres)) > 0
    THEN GenreTitles(titles, preferred_genres)
    ELSE titles

\* if random.random() < 0.8 and len(genre_titles) > 0: genre_titles else other_titles
TitlePool(titles, preferred_genres, hit) ==
    IF hit /\ Len(GenreTitles(titles, preferred_genres)) > 0
    THEN GenreTitles(titles, preferred_genres)
    ELSE OtherTitles(titles, preferred_genres)

InitTel ==
    /\ pc = "idle"
    /\ seed \in Seeds
    /\ num_customers = 0 /\ num_titles = 0 /\ num_campaigns = 0
    /\ num_telemetry_events = 0
    /\ batch_size = batch_size_const
    /\ customers_df = <<>> /\ titles_df = <<>> /\ campaigns_df = <<>>
    /\ i = 0 /\ events = <<>> /\ groups = <<>> /\ requested = <<>>
    /\ disk = <<>>
    /\ written = <<>>
    /\ now = StartNow /\ ticks = 0
    /\ run = 1 /\ reruns = 0 /\ prev = NoPrev /\ tape = NoTape
    /\ sess = SessIdle
    /\ AuxIdle
    /\ \E nc \in TelCustomerCounts, nt \in TelTitleCounts :
          tel \in [pc : {"loop"},
                   customers_df : CustomerTables(nc),
                   titles_df : TitleTables(nt),
                   num_events : 0..MaxTelEvents,
                   events : {<<>>},
                   draws : {<<>>},
                   df : {<<>>}]

\* _generate_single_event, appended to events by the loop of generate_telemetry_events
GenerateSingleEvent ==
    /\ tel.pc = "loop"
    /\ Len(tel.events) < tel.num_events
    /\ LET active_customers == ActiveCustomers(tel.customers_df)
       IN  /\ active_customers # <<>>
           /\ \E c \in 1..Len(active_customers), hit \in BOOLEAN :
                 LET customer == active_customers[c]
                     pool == TitlePool(tel.titles_df, PreferredGenres(customer), hit)
                 IN  /\ pool # <<>>
                     /\ \E t \in 1..Len(pool), u \in Uuids, h \in HourChoices :
                           tel' = [tel EXCEPT !.events = Append(@,
                                     [event_id |-> EventId(u),
                                      customer_id |-> customer.customer_id,
                                      title_id |-> pool[t].title_id,
                                      event_timestamp |->
                                          GenerateTimestamp(now, 0, h, 0, 0)]),
                                   !.draws = Append(@,
                                     [hit |-> hit,
                                      preferred_genres |-> customer.preferred_genres,
                                      title |-> pool[t]])]
    /\ UNCHANGED <<pipeVars, auxVars>>
    /\ UNCHANGED sess

\* active_customers.sample(1) on an empty frame raises ValueError
CustomerSampleFails ==
    /\ tel.pc = "loop"
    /\ Len(tel.events) < tel.num_events
    /\ ActiveCustomers(tel.customers_df) = <<>>
    /\ tel' = [tel EXCEPT !.pc = "raised"]
    /\ UNCHANGED <<pipeVars, auxVars>>
    /\ UNCHANGED sess

\* genre_titles.sample(1) / other_titles.sample(1) on an empty frame raises ValueError
TitleSampleFails ==
    /\ tel.pc = "loop"
    /\ Len(tel.events) < tel.num_events
    /\ LET active_customers == ActiveCustomers(tel.customers_df)
       IN  \E c \in 1..Len(active_customers), hit \in BOOLEAN :
              TitlePool(tel.titles_df, PreferredGenres(active_customers[c]), hit) = <<>>
    /\ tel' = [tel EXCEPT !.pc = "raised"]
    /\ UNCHANGED <<pipeVars, auxVars>>
    /\ UNCHANGED sess

\* df = pd.DataFrame(events); df = df.sort_values('event_timestamp'); return df
ReturnEvents ==
    /\ tel.pc = "loop"
    /\ Len(tel.events) = tel.num_events
    /\ tel' = [tel EXCEPT !.pc = "returned", !.df = SortByTimestamp(tel.events)]
    /\ UNCHANGED <<pipeVars, auxVars>>
    /\ UNCHANGED sess

NextTel == GenerateSingleEvent \/ CustomerSampleFails \/ TitleSampleFails \/ ReturnEvents

SpecTel == InitTel /\ [][NextTel]_vars


(***************************************************************************)
(* SpecSession: TelemetryGenerator._generate_viewing_session(title, quality) *)
(*                                                                         *)
(* A draw of random.uniform(a, b) is a fraction k / FracDen; seconds are    *)
(* integers; a percentage rounded to two places is an integer number of    *)
(* hundredths of a percent.  The quality argument selects the buffering    *)
(* and error probabilities only, which are all strictly between 0 and 1,   *)
(* so it does not change the set of results.                               *)
(***************************************************************************)
FracDen == 100          \* resolution of the uniform draws

\* TitleGenerator.generate_title: duration_minutes by title_type
MovieMinMinutes == 80
MovieMaxMinutes == 180
SeriesMinMinutes == 20
SeriesMaxMinutes == 60
DocumentaryMinMinutes == 45
DocumentaryMaxMinutes == 120

SessionTitles ==
    [title_type : {"movie"}, duration_minutes : MovieMinMinutes..MovieMaxMinutes]
    \cup [title_type : {"series"}, duration_minutes : SeriesMinMinutes..SeriesMaxMinutes]
    \cup [title_type : {"documentary"},
          duration_minutes : DocumentaryMinMinutes..DocumentaryMaxMinutes]

\* variant: random.uniform(0.8, 1.0)
CompleteFractionsFrom80 == {k \in 0..FracDen : 80 * FracDen <= 100 * k}

\* variant: random.uniform(0.85, 1.1)
CompleteFractionsTo110 ==
    {k \in 0..(FracDen + FracDen \div 10) : 85 * FracDen <= 100 * k}

\* random.uniform(0.85, 1.0), as numerators over FracDen
CompleteFractions == {k \in 0..FracDen : 85 * FracDen <= 100 * k}

\* random.uniform(0.1, 0.8), as numerators over FracDen
StopFractions == {k \in 0..FracDen : 10 * FracDen <= 100 * k /\ 100 * k <= 80 * FracDen}

\* np.random.poisson(...), random.randint(2, 10): the values enumerated
PoissonChoices == {0, 1}
BufferSecondsChoices == {2, 10}

\* title['duration_minutes'] * 60
TitleDurationSeconds(title) == title.duration_minutes * 60

\* int(title_duration_seconds * fraction): truncation to whole seconds
WatchDuration(title_duration_seconds, k) == (title_duration_seconds * k) \div FracDen

\* round(x, 2) of x = a / b percent, in hundredths of a percent
RoundHundredths(a, b) == (2 * a * 100 + b) \div (2 * b)

Min(a, b) == IF a <= b THEN a ELSE b

\* the is_complete branch: lines 154-157
CompleteSession(title, k) ==
    LET title_duration_seconds == TitleDurationSeconds(title)
        watch_duration == WatchDuration(title_duration_seconds, k)
    IN  [event_type |-> "complete",
         watch_duration |-> watch_duration,
         position |-> title_duration_seconds,
         completion_percentage |->
             Min(10000, RoundHundredths(watch_duration * 100, title_duration_seconds))]

\* the else branch: lines 159-163
StopSession(title, k) ==
    LET title_duration_seconds == TitleDurationSeconds(title)
        watch_duration == WatchDuration(title_duration_seconds, k)
    IN  [event_type |-> "stop",
         watch_duration |-> watch_duration,
         position |-> watch_duration,
         completion_percentage |-> RoundHundredths(k * 100, FracDen)]

InitSession ==
    /\ pc = "idle"
    /\ seed \in Seeds
    /\ num_customers = 0 /\ num_titles = 0 /\ num_campaigns = 0
    /\ num_telemetry_events = 0
    /\ batch_size = batch_size_const
    /\ customers_df = <<>> /\ titles_df = <<>> /\ campaigns_df = <<>>
    /\ i = 0 /\ events = <<>> /\ groups = <<>> /\ requested = <<>>
    /\ disk = <<>>
    /\ written = <<>>
    /\ now = StartNow /\ ticks = 0
    /\ run = 1 /\ reruns = 0 /\ prev = NoPrev /\ tape = NoTape
    /\ tel = TelIdle
    /\ AuxIdle
    /\ sess \in [pc : {"call"}, title : SessionTitles]

\* the fields every session gets: lines 175-178
WithBuffering(session, buffering_events, seconds, error_count) ==
    session @@ [buffering_events |-> buffering_events,
                buffering_duration |->
                    IF buffering_events > 0 THEN buffering_events * seconds ELSE 0,
                error_count |-> error_count]

\* _generate_viewing_session, is_complete drawn True
ViewingSessionComplete ==
    /\ sess.pc = "call"
    /\ \E k \in CompleteFractions, b \in PoissonChoices, s \in BufferSecondsChoices,
          e \in {0, 1} :
          sess' = [pc |-> "returned", title |-> sess.title, fraction |-> k,
                   result |-> WithBuffering(CompleteSession(sess.title, k), b, s, e)]
    /\ UNCHANGED <<pipeVars, auxVars>>
    /\ UNCHANGED tel

\* _generate_viewing_session, is_complete drawn False
ViewingSessionStop ==
    /\ sess.pc = "call"
    /\ \E k \in StopFractions, b \in PoissonChoices, s \in BufferSecondsChoices,
          e \in {0, 1} :
          sess' = [pc |-> "returned", title |-> sess.title, fraction |-> k,
                   result |-> WithBuffering(StopSession(sess.title, k), b, s, e)]
    /\ UNCHANGED <<pipeVars, auxVars>>
    /\ UNCHANGED tel

NextSession == ViewingSessionComplete \/ ViewingSessionStop

SpecSession == InitSession /\ [][NextSession]_vars


(***************************************************************************)
(* The table generators on their own: generate_customers, generate_titles, *)
(* generate_campaigns                                                      *)
(***************************************************************************)
MaxRows == 2

\* DataGenerator is not running
PipeIdle ==
    /\ pc = "idle"
    /\ seed \in {42}
    /\ num_customers = 0 /\ num_titles = 0 /\ num_campaigns = 0
    /\ num_telemetry_events = 0
    /\ batch_size = batch_size_const
    /\ customers_df = <<>> /\ titles_df = <<>> /\ campaigns_df = <<>>
    /\ i = 0 /\ events = <<>> /\ groups = <<>> /\ requested = <<>>
    /\ disk = <<>>
    /\ written = <<>>
    /\ now = StartNow /\ ticks = 0
    /\ run = 1 /\ reruns = 0 /\ prev = NoPrev /\ tape = NoTape

\* Python's None and a value that is present
None == <<>>
Some(v) == <<v>>

\* ---- CustomerGenerator.generate_customer ----
SubscriptionTiers == {"free_with_ads", "basic", "standard", "premium"}

\* churn_probability, in hundredths
ChurnProbability(subscription_tier) ==
    CASE subscription_tier = "free_with_ads" -> 30
      [] subscription_tier = "basic" -> 20
      [] subscription_tier = "standard" -> 10
      [] OTHER -> 5

\* values of random.random(), in hundredths
RandomDraws == {5, 30, 60}

\* fake.date_time_between(start_date='-3y', end_date='now')
SubscriptionStarts(clock) == {MinusDays(clock, 30)}

\* fake.date_time_between(start_date=subscription_start, end_date='now')
DateTimeBetween(start, clock) == {start, clock}

\* variant: an end date for every customer
SubscriptionEndAlways(is_active, between) == Some(between)

\* None if is_active else the drawn date
SubscriptionEnd(is_active, between) ==
    IF is_active THEN None ELSE Some(between)

generate_customer(u, customer_index, subscription_tier, draw, subscription_start, between) ==
    LET is_active == draw > ChurnProbability(subscription_tier)
    IN  [customer_id |-> CustomerId(u, customer_index),
         subscription_tier |-> subscription_tier,
         subscription_start_date |-> subscription_start,
         subscription_end_date |-> SubscriptionEnd(is_active, between),
         is_active |-> is_active]

\* ---- TitleGenerator.generate_title ----
TitleTypes == {"movie", "series", "documentary"}

\* random.randint(a, b) at its ends
DurationChoices(title_type) ==
    CASE title_type = "movie" -> {MovieMinMinutes, MovieMaxMinutes}
      [] title_type = "series" -> {SeriesMinMinutes, SeriesMaxMinutes}
      [] OTHER -> {DocumentaryMinMinutes, DocumentaryMaxMinutes}

SeasonChoices == {1, 8}
EpisodeChoices == {1, 24}

\* variant: a season for every title
SeasonNumberAlways(title_type, season) == Some(season)

SeasonNumber(title_type, season) ==
    IF title_type = "series" THEN Some(season) ELSE None

EpisodeNumber(title_type, episode) ==
    IF title_type = "series" THEN Some(episode) ELSE None

generate_title(u, title_index, title_type, duration_minutes, season, episode) ==
    [title_id |-> TitleId(u, title_index),
     title_type |-> title_type,
     duration_minutes |-> duration_minutes,
     season_number |-> SeasonNumber(title_type, season),
     episode_number |-> EpisodeNumber(title_type, episode)]

\* ---- CampaignGenerator.generate_campaign ----
\* date.today() as a day ordinal at the call of fake.date_between
TodayOrdinal == 739617

CampaignTypes == {"brand_awareness", "conversion", "retention"}

\* random.randint(7, 90) at its ends
CampaignDurations == {7, 90}

\* fake.date_between(start_date='-6m', end_date='today'): days before today
StartOffsets == {0, 30, 180}

\* midnight may pass between fake.date_between and date.today()
MidnightChoices == {0, 1}

\* variant: the status is decided by the start date
CampaignStatusByStart(start_date, end_date, today) ==
    IF start_date < today THEN "completed" ELSE "active"

CampaignStatus(start_date, end_date, today) ==
    IF end_date < today THEN "completed"
    ELSE IF start_date > today THEN "scheduled"
    ELSE "active"

\* random.uniform(lo, hi), in dollars: one value of each range
DailyBudgets(campaign_type) ==
    CASE campaign_type = "brand_awareness" -> {1000}
      [] campaign_type = "conversion" -> {20000}
      [] OTHER -> {2500}

\* random.uniform(0.85, 1.0) and random.uniform(0.9, 1.1), in hundredths
SpendFactors(status) ==
    CASE status = "completed" -> {85, 100}
      [] status = "active" -> {90, 110}
      [] OTHER -> {100}

DaysRun(status, campaign_duration, start_date, today) ==
    CASE status = "completed" -> campaign_duration
      [] status = "active" -> today - start_date
      [] OTHER -> 0

\* spent_amount in dollars (the budgets drawn are multiples of 100)
SpentAmount(status, daily_budget, campaign_duration, days_run, factor) ==
    CASE status = "completed" -> ((daily_budget * campaign_duration) \div 100) * factor
      [] status = "active" -> ((daily_budget * days_run) \div 100) * factor
      [] OTHER -> 0

\* cpm in dollars, 1/ctr and 1/(10 * conversion_rate): points of the ranges
\* of _generate_performance_metrics
CpmChoices(campaign_type) ==
    CASE campaign_type = "brand_awareness" -> {4}
      [] campaign_type = "conversion" -> {30}
      [] OTHER -> {16}

CtrInverse(campaign_type) ==
    CASE campaign_type = "brand_awareness" -> 1000
      [] campaign_type = "conversion" -> 50
      [] OTHER -> 200

ConversionInverse(campaign_type) ==
    CASE campaign_type = "brand_awareness" -> 250
      [] campaign_type = "conversion" -> 10
      [] OTHER -> 100

_generate_performance_metrics(campaign_type, spent_amount, cpm) ==
    LET impressions == (spent_amount * 1000) \div cpm
        clicks == impressions \div CtrInverse(campaign_type)
        conversions == clicks \div ConversionInverse(campaign_type)
    IN  [impressions |-> impressions, clicks |-> clicks, conversions |-> conversions]

_generate_empty_performance ==
    [impressions |-> 0, clicks |-> 0, conversions |-> 0]

generate_campaign(u, campaign_index, campaign_type, campaign_duration, start_date, today, daily_budget, factor, cpm) ==
    LET end_date == start_date + campaign_duration
        status == CampaignStatus(start_date, end_date, today)
        days_run == DaysRun(status, campaign_duration, start_date, today)
        spent_amount == SpentAmount(status, daily_budget, campaign_duration, days_run, factor)
        performance == IF status \in {"completed", "active"}
                       THEN _generate_performance_metrics(campaign_type, spent_amount, cpm)
                       ELSE _generate_empty_performance
    IN  [campaign_id |-> CampaignId(u, campaign_index),
         campaign_type |-> campaign_type,
         campaign_duration |-> campaign_duration,
         start_date |-> start_date,
         end_date |-> end_date,
         status |-> status,
         days_run |-> days_run,
         spent_amount |-> spent_amount] @@ performance

\* ---- generate_customers(n), generate_titles(n), generate_campaigns(n) ----
InitGen ==
    /\ PipeIdle /\ SvcIdle
    /\ tel = TelIdle /\ sess = SessIdle
    /\ up = UpIdle /\ hw = HwIdle /\ mem = MemIdle
    /\ gen \in [pc : {"loop"}, kind : {"customers", "titles", "campaigns"},
                n : 0..MaxRows, rows : {<<>>}]

AppendCustomer ==
    /\ gen.pc = "loop" /\ gen.kind = "customers"
    /\ Len(gen.rows) < gen.n
    /\ \E u \in Uuids, t \in SubscriptionTiers, d \in RandomDraws :
       \E s \in SubscriptionStarts(now) :
       \E b \in DateTimeBetween(s, now) :
          gen' = [gen EXCEPT !.rows = Append(@, generate_customer(u, Len(gen.rows), t, d, s, b))]
    /\ UNCHANGED <<pipeVars, tel, sess, up, hw, mem, svcVars>>

AppendTitle ==
    /\ gen.pc = "loop" /\ gen.kind = "titles"
    /\ Len(gen.rows) < gen.n
    /\ \E u \in Uuids, t \in TitleTypes, s \in SeasonChoices, e \in EpisodeChoices :
       \E d \in DurationChoices(t) :
          gen' = [gen EXCEPT !.rows = Append(@, generate_title(u, Len(gen.rows), t, d, s, e))]
    /\ UNCHANGED <<pipeVars, tel, sess, up, hw, mem, svcVars>>

AppendCampaign ==
    /\ gen.pc = "loop" /\ gen.kind = "campaigns"
    /\ Len(gen.rows) < gen.n
    /\ \E u \in Uuids, t \in CampaignTypes, d \in CampaignDurations,
          off \in StartOffsets, m \in MidnightChoices :
       \E b \in DailyBudgets(t), c \in CpmChoices(t) :
       LET start_date == TodayOrdinal - off
           today == TodayOrdinal + m
       IN  \E f \in SpendFactors(CampaignStatus(start_date, start_date + d, today)) :
              gen' = [gen EXCEPT !.rows =
                         Append(@, generate_campaign(u, Len(gen.rows), t, d, start_date,
                                                     today, b, f, c))]
    /\ UNCHANGED <<pipeVars, tel, sess, up, hw, mem, svcVars>>

\* df = pd.DataFrame(rows); return df
ReturnTable ==
    /\ gen.pc = "loop"
    /\ Len(gen.rows) = gen.n
    /\ gen' = [gen EXCEPT !.pc = "returned"]
    /\ UNCHANGED <<pipeVars, tel, sess, up, hw, mem, svcVars>>

NextGen == AppendCustomer \/ AppendTitle \/ AppendCampaign \/ ReturnTable

SpecGen == InitGen /\ [][NextGen]_vars

(***************************************************************************)
(* S3Uploader.upload_directory                                             *)
(* A file is the sequence of its path components below local_dir; a        *)
(* component, a prefix and a key are strings, kept as sequences of pieces. *)
(***************************************************************************)
MaxParts == 2
max_workers == 5

\* the components of a path the generator writes, as pieces
PathPieces(p) ==
    CASE p = CustomersFile -> << <<"customers">>, <<"customers", ".parquet">> >>
      [] p = TitlesFile -> << <<"titles">>, <<"titles", ".parquet">> >>
      [] p = CampaignsFile -> << <<"campaigns">>, <<"campaigns", ".parquet">> >>
      [] p = MetadataFile -> << <<"metadata.json">> >>
      [] OTHER -> << <<p[1]>> >> \o Tail(p)

\* the tree the generator leaves behind, with nparts telemetry partitions
GeneratedTree(nparts) ==
    {PathPieces(CustomersFile), PathPieces(TitlesFile), PathPieces(CampaignsFile),
     PathPieces(MetadataFile)}
    \cup {PathPieces(TelemetryFile(<<ZeroPad(2026, 4), ZeroPad(1, 2), ZeroPad(1, 2),
                                     ZeroPad(7, 2)>>, b)) : b \in 0..(nparts - 1)}

\* files next to the data that are neither *.parquet nor metadata.json
OtherFiles ==
    { << <<"README", ".md">> >>,
      << <<"old_", "metadata.json">> >>,
      << <<"customers">>, <<"customers", ".parquet", ".tmp">> >> }

\* the same file name in two directories
SameNameTree ==
    { << <<"customers">>, <<"customers", ".parquet">> >>,
      << <<"backup">>, <<"customers", ".parquet">> >> }

\* a POSIX file name that contains a backslash, next to a directory a
BackslashTree ==
    { << <<"a">>, <<"b", ".parquet">> >>,
      << <<"a", "\\", "b", ".parquet">> >> }

Trees(platform) ==
    {{}} \cup {GeneratedTree(0) \cup OtherFiles, SameNameTree}
         \cup (IF platform = "posix"
               THEN {GeneratedTree(n) : n \in 0..MaxParts} \cup {BackslashTree}
               ELSE {})

Platforms == {"posix", "nt"}
Prefixes == {<<"raw">>}

\* os.sep
Sep(platform) == IF platform = "nt" THEN "\\" ELSE "/"

\* os.path.relpath(local_path, local_dir): the components joined by os.sep
RECURSIVE RelPath(_, _)
RelPath(file, sep) ==
    IF Len(file) = 1 THEN file[1]
    ELSE file[1] \o <<sep>> \o RelPath(Tail(file), sep)

\* str.replace('\\', '/')
ReplaceBackslash(s) == [k \in 1..Len(s) |-> IF s[k] = "\\" THEN "/" ELSE s[k]]

\* file.endswith('.parquet') or file == 'metadata.json'
IsUploadable(file) ==
    LET name == file[Len(file)]
    IN  name[Len(name)] = ".parquet" \/ name = <<"metadata.json">>

\* f"{s3_prefix}/{relative_path}".replace('\\', '/')
S3Key(s3_prefix, file, platform) ==
    ReplaceBackslash(s3_prefix \o <<"/">> \o RelPath(file, Sep(platform)))

\* the (local_path, s3_key) pairs collected by the walk; the order of the
\* list is the directory listing order, which the pool's workers see only as
\* the order in which they take the files
FilesToUpload(tree, s3_prefix, platform) ==
    {[local_path |-> f, s3_key |-> S3Key(s3_prefix, f, platform)] :
        f \in {g \in tree : IsUploadable(g)}}

\* variant: an error leaves upload_file as an exception
UploadFileRaises(error) == IF error THEN "exception" ELSE "true"

\* upload_file: True, or False when anything in the try block raised
UploadFile(error) == IF error THEN "false" ELSE "true"

\* variant: no limit on the workers
CanStartAlways(running) == TRUE

\* ThreadPoolExecutor(max_workers=5): a queued call starts when a worker is free
CanStart(running) == running < max_workers

Running(u) == {t \in u.files_to_upload : u.state[t] = "running"}
Finished(u) == {t \in u.files_to_upload : u.state[t] \in {"true", "false", "exception"}}

UpCall(platform, exists, tree, s3_prefix) ==
    [pc |-> "call", platform |-> platform, exists |-> exists, tree |-> tree,
     s3_prefix |-> s3_prefix, files_to_upload |-> {}, state |-> <<>>, attempts |-> <<>>,
     collected |-> {}, successful_uploads |-> 0, failed_uploads |-> 0, bucket |-> <<>>]

InitUp ==
    /\ PipeIdle /\ SvcIdle
    /\ tel = TelIdle /\ sess = SessIdle
    /\ gen = GenIdle /\ hw = HwIdle /\ mem = MemIdle
    /\ \E platform \in Platforms, s3_prefix \in Prefixes :
          \/ up = UpCall(platform, FALSE, {}, s3_prefix)
          \/ \E tree \in Trees(platform) : up = UpCall(platform, TRUE, tree, s3_prefix)

\* lines 69-101: the walk, the two early returns, and the submission of one
\* call of upload_file per collected file
Walk ==
    /\ up.pc = "call"
    /\ LET files == FilesToUpload(up.tree, up.s3_prefix, up.platform)
       IN  IF ~ up.exists \/ files = {}
           THEN up' = [up EXCEPT !.pc = "returned"]
           ELSE up' = [up EXCEPT !.pc = "pool",
                                 !.files_to_upload = files,
                                 !.state = [t \in files |-> "queued"],
                                 !.attempts = [t \in files |-> 0]]
    /\ UNCHANGED <<pipeVars, tel, sess, gen, hw, mem, svcVars>>

\* a worker thread takes a submitted call
WorkerStart(t) ==
    /\ up.pc = "pool"
    /\ up.state[t] = "queued"
    /\ CanStart(Cardinality(Running(up)))
    /\ up' = [up EXCEPT !.state[t] = "running", !.attempts[t] = @ + 1]
    /\ UNCHANGED <<pipeVars, tel, sess, gen, hw, mem, svcVars>>

\* upload_file returns True: the object is in the bucket
UploadFileOk(t) ==
    /\ up.pc = "pool"
    /\ up.state[t] = "running"
    /\ up' = [up EXCEPT !.state[t] = UploadFile(FALSE),
                        !.bucket = WriteFile(up.bucket, t.s3_key, t.local_path)]
    /\ UNCHANGED <<pipeVars, tel, sess, gen, hw, mem, svcVars>>

\* os.path.getsize or s3_client.upload_file raises inside upload_file
UploadFileError(t) ==
    /\ up.pc = "pool"
    /\ up.state[t] = "running"
    /\ up' = [up EXCEPT !.state[t] = UploadFile(TRUE)]
    /\ UNCHANGED <<pipeVars, tel, sess, gen, hw, mem, svcVars>>

\* one iteration of `for future in as_completed(...)`: lines 103-115
AsCompleted(t) ==
    /\ up.pc = "pool"
    /\ t \in Finished(up) \ up.collected
    /\ up' = [up EXCEPT !.collected = @ \cup {t},
                        !.successful_uploads = IF up.state[t] = "true" THEN @ + 1 ELSE @,
                        !.failed_uploads = IF up.state[t] = "true" THEN @ ELSE @ + 1]
    /\ UNCHANGED <<pipeVars, tel, sess, gen, hw, mem, svcVars>>

\* every future was collected: the pool shuts down and upload_directory returns
UploadReturn ==
    /\ up.pc = "pool"
    /\ up.collected = up.files_to_upload
    /\ up' = [up EXCEPT !.pc = "returned"]
    /\ UNCHANGED <<pipeVars, tel, sess, gen, hw, mem, svcVars>>

NextUp ==
    \/ Walk
    \/ \E t \in up.files_to_upload :
          WorkerStart(t) \/ UploadFileOk(t) \/ UploadFileError(t) \/ AsCompleted(t)
    \/ UploadReturn

SpecUp == InitUp /\ [][NextUp]_vars

(***************************************************************************)
(* The two command-line tools one after the other: main.py writes the      *)
(* output directory, upload_to_s3.py uploads what it finds there           *)
(***************************************************************************)
\* upload_to_s3.py --local-dir <output_dir> after the generator's process ended,
\* normally or with an uncaught exception
RunUploader ==
    /\ pc \in {"done", "failed", "failed_partition"}
    /\ up = UpIdle
    /\ up' = UpCall("posix", TRUE, {PathPieces(p) : p \in DOMAIN disk}, <<"raw">>)
    /\ UNCHANGED <<pipeVars, tel, sess, gen, hw, mem, svcVars>>

\* main.py --customers 1 --titles 1 --telemetry 0 --campaigns 1
InitTools == InitRun({1}, {1}, {0}, {1}, {batch_size_const}, 0)

\* the steps of generate_all_data that such a run takes, then the uploader
NextTools ==
    \/ GenerateCustomer \/ SaveCustomers
    \/ GenerateTitle \/ SaveTitles
    \/ EndTelemetry
    \/ GenerateCampaign \/ SaveCampaigns
    \/ GenerateMetadata
    \/ SaveFails
    \/ RunUploader
    \/ NextUp

SpecTools == InitTools /\ [][NextTools]_vars

(***************************************************************************)
(* TelemetryGenerator._generate_hourly_weights                             *)
(* The arrays are filled hour by hour; values are fixed-point numbers.     *)
(***************************************************************************)
Abs(x) == IF x < 0 THEN -x ELSE x

\* np.exp(-0.5 * (d / 2) ** 2) and np.exp(-0.5 * (d / 3) ** 2) for
\* d = 0, 1, 2, ..., in hundredths; 0 beyond the table
ExpTable(s) ==
    IF s = 2 THEN <<100, 88, 61, 32, 14, 4, 1>>
    ELSE <<100, 95, 80, 61, 41, 25, 14, 7, 3, 1>>

\* np.exp(-0.5 * ((hours - m) / s) ** 2) at hour h, in hundredths
Gauss(h, m, s) ==
    LET d == Abs(h - m)
    IN  IF d < Len(ExpTable(s)) THEN ExpTable(s)[d + 1] ELSE 0

\* variant: the late-night peak without its own factor 0.5
LateNightUnscaled(h) == Gauss(h, 23, 2) * 10

\* np.exp(-0.5 * ((hours - 23) / 2) ** 2) * 0.5, in thousandths
LateNight(h) == Gauss(h, 23, 2) * 5

\* morning_peak * 0.3 + evening_peak * 1.0 + late_night * 0.4, in ten-thousandths
WeightAt(morning_peak, evening_peak, late_night) ==
    morning_peak * 30 + evening_peak * 100 + late_night * 4

\* ndarray.sum()
RECURSIVE SumSeq(_)
SumSeq(q) == IF q = <<>> THEN 0 ELSE q[1] + SumSeq(Tail(q))

InitHw ==
    /\ PipeIdle /\ SvcIdle
    /\ tel = TelIdle /\ sess = SessIdle
    /\ gen = GenIdle /\ up = UpIdle /\ mem = MemIdle
    /\ hw = [pc |-> "hours", hours |-> <<>>, morning_peak |-> <<>>, evening_peak |-> <<>>,
             late_night |-> <<>>, weights |-> <<>>, sum |-> 0, result |-> <<>>]

\* hours = np.arange(24)
Arange ==
    /\ hw.pc = "hours"
    /\ hw' = [hw EXCEPT !.hours = [k \in 1..24 |-> k - 1], !.pc = "morning_peak"]
    /\ UNCHANGED <<pipeVars, tel, sess, gen, up, mem, svcVars>>

\* morning_peak = np.exp(-0.5 * ((hours - 7) / 2) ** 2), element by element
MorningPeak ==
    /\ hw.pc = "morning_peak"
    /\ LET k == Len(hw.morning_peak) + 1
       IN  hw' = [hw EXCEPT !.morning_peak = Append(@, Gauss(hw.hours[k], 7, 2)),
                            !.pc = IF k = Len(hw.hours) THEN "evening_peak" ELSE @]
    /\ UNCHANGED <<pipeVars, tel, sess, gen, up, mem, svcVars>>

\* evening_peak = np.exp(-0.5 * ((hours - 20) / 3) ** 2)
EveningPeak ==
    /\ hw.pc = "evening_peak"
    /\ LET k == Len(hw.evening_peak) + 1
       IN  hw' = [hw EXCEPT !.evening_peak = Append(@, Gauss(hw.hours[k], 20, 3)),
                            !.pc = IF k = Len(hw.hours) THEN "late_night" ELSE @]
    /\ UNCHANGED <<pipeVars, tel, sess, gen, up, mem, svcVars>>

\* late_night = np.exp(-0.5 * ((hours - 23) / 2) ** 2) * 0.5
LateNightPeak ==
    /\ hw.pc = "late_night"
    /\ LET k == Len(hw.late_night) + 1
       IN  hw' = [hw EXCEPT !.late_night = Append(@, LateNight(hw.hours[k])),
                            !.pc = IF k = Len(hw.hours) THEN "weights" ELSE @]
    /\ UNCHANGED <<pipeVars, tel, sess, gen, up, mem, svcVars>>

\* weights = morning_peak * 0.3 + evening_peak * 1.0 + late_night * 0.4
Weights ==
    /\ hw.pc = "weights"
    /\ LET k == Len(hw.weights) + 1
       IN  hw' = [hw EXCEPT !.weights = Append(@, WeightAt(hw.morning_peak[k],
                                                           hw.evening_peak[k],
                                                           hw.late_night[k])),
                            !.pc = IF k = Len(hw.hours) THEN "sum" ELSE @]
    /\ UNCHANGED <<pipeVars, tel, sess, gen, up, mem, svcVars>>

\* weights.sum()
WeightsSum ==
    /\ hw.pc = "sum"
    /\ hw' = [hw EXCEPT !.sum = SumSeq(hw.weights), !.pc = "normalize"]
    /\ UNCHANGED <<pipeVars, tel, sess, gen, up, mem, svcVars>>

\* weights = weights / weights.sum(); return weights: the value at hour h is
\* the fraction result[h + 1].num / result[h + 1].den
Normalize ==
    /\ hw.pc = "normalize"
    /\ hw' = [hw EXCEPT !.result = [k \in 1..Len(hw.weights) |->
                                        [num |-> hw.weights[k], den |-> hw.sum]],
                        !.pc = "returned"]
    /\ UNCHANGED <<pipeVars, tel, sess, gen, up, mem, svcVars>>

NextHw == Arange \/ MorningPeak \/ EveningPeak \/ LateNightPeak \/ Weights \/ WeightsSum \/ Normalize

SpecHw == InitHw /\ [][NextHw]_vars

(***************************************************************************)
(* memory_manager.extract_session_info                                     *)
(* A session id is a string; an actor id is a string kept as the sequence  *)
(* of its pieces, so that str.replace can be followed                      *)
(***************************************************************************)
DefaultSession == "default-session"
AnonymousUser == <<"anonymous", "-", "user">>

\* actor ids a caller supplies: e-mail addresses, a plain name, a handle
\* starting with '@', and the empty string
ActorIds ==
    { <<"admin", "@", "acmecorp", ".", "com">>,
      <<"user", "+", "test", "@", "example", ".", "com">>,
      <<"user42">>,
      <<"@", "ops">>,
      <<"john", " ", "doe">>,
      <<>> }

\* the pieces made of letters and digits only
AlnumPieces ==
    {"admin", "acmecorp", "com", "user", "test", "example", "user42", "ops",
     "john", "doe", "bob", "anonymous"}

\* the [META:{...}] block of the prompt: absent, not JSON, or an object
\* with optional sid and uid
MetaBlocks ==
    {[present |-> FALSE, valid |-> FALSE, sid |-> None, uid |-> None],
     [present |-> TRUE, valid |-> FALSE, sid |-> None, uid |-> None]}
    \cup [present : {TRUE}, valid : {TRUE}, sid : {None, Some("session-1")},
          uid : {None} \cup {Some(a) : a \in ActorIds}]

Payloads ==
    [meta : MetaBlocks,
     sessionId : {None, Some("fallback-session")},
     session_id : {None, Some("s9")},
     actorId : {None} \cup {Some(a) : a \in ActorIds},
     userId : {None, Some(<<"user42">>)},
     user_id : {None, Some(<<"bob">>)}]

\* dict.get(key, default)
Get(field, default) == IF field = None THEN default ELSE field[1]

\* variant: the actor id is returned as supplied
ReplaceNothing(actor_id) == actor_id

\* .replace('@', '_at_').replace('.', '_dot_').replace('+', '_plus_')
ReplaceSpecial(actor_id) ==
    [k \in 1..Len(actor_id) |->
        CASE actor_id[k] = "@" -> "_at_"
          [] actor_id[k] = "." -> "_dot_"
          [] actor_id[k] = "+" -> "_plus_"
          [] OTHER -> actor_id[k]]

\* not sanitized_actor_id[0].isalnum()
StartsNonAlnum(s) == s[1] \notin AlnumPieces

InitMem ==
    /\ PipeIdle /\ SvcIdle
    /\ tel = TelIdle /\ sess = SessIdle
    /\ gen = GenIdle /\ up = UpIdle /\ hw = HwIdle
    /\ \E payload \in Payloads :
          mem = [pc |-> "meta", payload |-> payload, session_id |-> DefaultSession,
                 actor_id |-> AnonymousUser]

\* lines 236-245: the metadata block of the prompt
ExtractMeta ==
    /\ mem.pc = "meta"
    /\ LET meta == mem.payload.meta
       IN  IF meta.present /\ meta.valid
           THEN mem' = [mem EXCEPT !.session_id = Get(meta.sid, mem.session_id),
                                   !.actor_id = Get(meta.uid, mem.actor_id),
                                   !.pc = "fallback"]
           ELSE mem' = [mem EXCEPT !.pc = "fallback"]
    /\ UNCHANGED <<pipeVars, tel, sess, gen, up, hw, svcVars>>

\* lines 248-260: the direct payload fields, for what is still the default
ExtractFields ==
    /\ mem.pc = "fallback"
    /\ LET p == mem.payload
           session_id ==
               IF mem.session_id = DefaultSession
               THEN IF p.sessionId # None THEN p.sessionId[1]
                    ELSE IF p.session_id # None THEN p.session_id[1]
                    ELSE mem.session_id
               ELSE mem.session_id
           actor_id ==
               IF mem.actor_id = AnonymousUser
               THEN IF p.actorId # None THEN p.actorId[1]
                    ELSE IF p.userId # None THEN p.userId[1]
                    ELSE IF p.user_id # None THEN p.user_id[1]
                    ELSE mem.actor_id
               ELSE mem.actor_id
       IN  mem' = [mem EXCEPT !.session_id = session_id, !.actor_id = actor_id,
                              !.pc = "sanitize"]
    /\ UNCHANGED <<pipeVars, tel, sess, gen, up, hw, svcVars>>

\* lines 267-278: the actor id is rewritten, then both ids are returned;
\* sanitized_actor_id[0] of an empty string raises IndexError
SanitizeAndReturn ==
    /\ mem.pc = "sanitize"
    /\ IF mem.actor_id = AnonymousUser
       THEN mem' = [mem EXCEPT !.pc = "returned"]
       ELSE LET sanitized_actor_id == ReplaceSpecial(mem.actor_id)
            IN  IF sanitized_actor_id = <<>>
                THEN mem' = [mem EXCEPT !.pc = "raised"]
                ELSE mem' = [mem EXCEPT !.actor_id =
                                            IF StartsNonAlnum(sanitized_actor_id)
                                            THEN <<"user_">> \o sanitized_actor_id
                                            ELSE sanitized_actor_id,
                                        !.pc = "returned"]
    /\ UNCHANGED <<pipeVars, tel, sess, gen, up, hw, svcVars>>

NextMem == ExtractMeta \/ ExtractFields \/ SanitizeAndReturn

SpecMem == InitMem /\ [][NextMem]_vars

(***************************************************************************)
(* SecretsManager (agent/secrets_manager.py): get_secret and clear_cache   *)
(* of one SecretsManager object; time.time() is the wall clock in seconds  *)
(***************************************************************************)
MaxAdvances == 3       \* how often the clock advances between the calls
MaxSecretCalls == 3    \* calls of get_secret and clear_cache that are followed

\* self._default_ttl
default_ttl == 3600

SecretNames == {"acme-chatbot/mcp-credentials", "other-secret"}
\* the cache_ttl argument: not given, 0 or one minute
CacheTtls == {None, Some(0), Some(60)}
\* what the secret holds in AWS at the time of a call
SecretValues == {"v1", "v2"}
\* seconds that pass between two calls
ClockSteps == {1, 59, 3540}
\* the argument of clear_cache: not given, the empty string or a name
ClearArgs == {None, Some("")} \cup {Some(n) : n \in SecretNames}

NoCall == [op |-> "none"]

\* variant: the time-to-live is the default only when cache_ttl is None
TtlWhenGiven(cache_ttl) == IF cache_ttl = None THEN default_ttl ELSE cache_ttl[1]

\* line 42: ttl = cache_ttl or self._default_ttl
Ttl(cache_ttl) ==
    IF cache_ttl = None \/ cache_ttl[1] = 0 THEN default_ttl ELSE cache_ttl[1]

\* lines 45-47: the entry exists and current_time < expires_at
CacheHit(cache, secret_name, current_time) ==
    /\ cache[secret_name] # None
    /\ current_time < cache[secret_name][1].expires_at

\* sec.retrieved is the record of what was asked for: for each name the
\* time, cache_ttl argument and data of the last successful retrieval that
\* no clear_cache has followed
InitSecrets ==
    /\ PipeIdle
    /\ tel = TelIdle /\ sess = SessIdle
    /\ gen = GenIdle /\ up = UpIdle /\ hw = HwIdle /\ mem = MemIdle
    /\ msk = MskIdle /\ pth = PthIdle /\ tok = TokIdle /\ prod = ProdIdle
    /\ nova = NovaIdle
    /\ sec = [pc |-> "ready", time |-> 0, advances |-> 0, calls |-> 0,
              cache |-> [n \in SecretNames |-> None],
              retrieved |-> [n \in SecretNames |-> None],
              last |-> NoCall]

AdvanceClock(dt) ==
    /\ sec.pc = "ready"
    /\ sec.advances < MaxAdvances
    /\ sec' = [sec EXCEPT !.time = @ + dt, !.advances = @ + 1]
    /\ UNCHANGED <<oldVars, msk, pth, tok, prod, nova>>

CallRecord(secret_name, cache_ttl, outcome, data) ==
    [op |-> "get_secret", name |-> secret_name, cache_ttl |-> cache_ttl,
     at |-> sec.time, outcome |-> outcome, data |-> data,
     cache_before |-> sec.cache, retrieved_before |-> sec.retrieved]

\* lines 45-49: the cached data is returned
GetSecretFromCache(secret_name, cache_ttl) ==
    /\ sec.pc = "ready"
    /\ sec.calls < MaxSecretCalls
    /\ CacheHit(sec.cache, secret_name, sec.time)
    /\ sec' = [sec EXCEPT !.calls = @ + 1,
                          !.last = CallRecord(secret_name, cache_ttl, "cached",
                                              sec.cache[secret_name][1].data)]
    /\ UNCHANGED <<oldVars, msk, pth, tok, prod, nova>>

\* lines 51-65: AWS is called, the answer is parsed, cached and returned
GetSecretRetrieved(secret_name, cache_ttl, secret_data) ==
    /\ sec.pc = "ready"
    /\ sec.calls < MaxSecretCalls
    /\ ~CacheHit(sec.cache, secret_name, sec.time)
    /\ sec' = [sec EXCEPT
                 !.calls = @ + 1,
                 !.cache[secret_name] =
                     Some([data |-> secret_data,
                           expires_at |-> sec.time + Ttl(cache_ttl),
                           retrieved_at |-> sec.time]),
                 !.retrieved[secret_name] =
                     Some([at |-> sec.time, cache_ttl |-> cache_ttl,
                           data |-> secret_data]),
                 !.last = CallRecord(secret_name, cache_ttl, "retrieved", secret_data)]
    /\ UNCHANGED <<oldVars, msk, pth, tok, prod, nova>>

\* lines 51-56, 67-84: the AWS call or the parsing fails, an Exception is raised
GetSecretRaises(secret_name, cache_ttl) ==
    /\ sec.pc = "ready"
    /\ sec.calls < MaxSecretCalls
    /\ ~CacheHit(sec.cache, secret_name, sec.time)
    /\ sec' = [sec EXCEPT !.calls = @ + 1,
                          !.last = CallRecord(secret_name, cache_ttl, "raised", None)]
    /\ UNCHANGED <<oldVars, msk, pth, tok, prod, nova>>

\* lines 122-130
ClearCache(secret_name) ==
    /\ sec.pc = "ready"
    /\ sec.calls < MaxSecretCalls
    /\ LET all == secret_name = None \/ secret_name[1] = ""
           Cleared(n) == all \/ n = secret_name[1]
       IN  sec' = [sec EXCEPT
                     !.calls = @ + 1,
                     !.cache = [n \in SecretNames |-> IF Cleared(n) THEN None ELSE @[n]],
                     !.retrieved = [n \in SecretNames |->
                                       IF Cleared(n) THEN None ELSE @[n]],
                     !.last = [op |-> "clear_cache", name |-> secret_name]]
    /\ UNCHANGED <<oldVars, msk, pth, tok, prod, nova>>

NextSecrets ==
    \/ \E dt \in ClockSteps : AdvanceClock(dt)
    \/ \E n \in SecretNames, c \in CacheTtls : GetSecretFromCache(n, c)
    \/ \E n \in SecretNames, c \in CacheTtls, d \in SecretValues : GetSecretRetrieved(n, c, d)
    \/ \E n \in SecretNames, c \in CacheTtls : GetSecretRaises(n, c)
    \/ \E a \in ClearArgs : ClearCache(a)

SpecSecrets == InitSecrets /\ [][NextSecrets]_vars

(***************************************************************************)
(* lambda/msk-config/index.py: the custom resource handler. Invocations of *)
(* the Lambda function run in separate execution environments, so two of   *)
(* them interleave at their calls of the Kafka API. One configuration name *)
(* is followed; an ARN is the number of the creation that made it, 0 for   *)
(* a configuration that existed before                                     *)
(***************************************************************************)
MaxInvocations == 3    \* events delivered to the handler
Invocations == {1, 2}  \* execution environments that may run at once

RequestTypes == {"Create", "Update", "Delete"}
InvIdle == [pc |-> "idle"]

\* find_configuration_by_name: the ARN of the configuration with that name
find_configuration_by_name(configurations) == configurations

InitMsk ==
    /\ PipeIdle
    /\ tel = TelIdle /\ sess = SessIdle
    /\ gen = GenIdle /\ up = UpIdle /\ hw = HwIdle /\ mem = MemIdle
    /\ sec = SecIdle /\ pth = PthIdle /\ tok = TokIdle /\ prod = ProdIdle
    /\ nova = NovaIdle
    /\ \E existing \in {None, Some(0)} :
          msk = [pc |-> "ready", configurations |-> existing, delivered |-> 0,
                 create_calls |-> 0, created |-> 0, deleted |-> 0,
                 inv |-> [p \in Invocations |-> InvIdle]]

\* lines 14-23: an event arrives
HandlerStart(p, request_type, physical_id) ==
    /\ msk.pc = "ready"
    /\ msk.inv[p].pc = "idle"
    /\ msk.delivered < MaxInvocations
    /\ msk' = [msk EXCEPT !.delivered = @ + 1,
                          !.inv[p] = [pc |-> "dispatch", request_type |-> request_type,
                                      physical_id |-> physical_id, config_arn |-> None]]
    /\ UNCHANGED <<oldVars, sec, pth, tok, prod, nova>>

\* lines 25-27: Create or Update looks the name up
FindConfiguration(p) ==
    /\ msk.pc = "ready"
    /\ msk.inv[p].pc = "dispatch"
    /\ msk.inv[p].request_type \in {"Create", "Update"}
    /\ msk' = [msk EXCEPT !.inv[p].config_arn = find_configuration_by_name(msk.configurations),
                          !.inv[p].pc = "found"]
    /\ UNCHANGED <<oldVars, sec, pth, tok, prod, nova>>

\* lines 29-30, 37-43: the configuration exists, its ARN is returned
ReturnExisting(p) ==
    /\ msk.pc = "ready"
    /\ msk.inv[p].pc = "found"
    /\ msk.inv[p].config_arn # None
    /\ msk' = [msk EXCEPT !.inv[p].pc = "returned",
                          !.inv[p].physical_id = msk.inv[p].config_arn]
    /\ UNCHANGED <<oldVars, sec, pth, tok, prod, nova>>

\* lines 31-43, 67-74: nothing was found, kafka.create_configuration makes it
CreateConfiguration(p) ==
    /\ msk.pc = "ready"
    /\ msk.inv[p].pc = "found"
    /\ msk.inv[p].config_arn = None
    /\ msk.configurations = None
    /\ LET arn == msk.created + 1
       IN  msk' = [msk EXCEPT !.create_calls = @ + 1,
                              !.created = arn,
                              !.configurations = Some(arn),
                              !.inv[p].config_arn = Some(arn),
                              !.inv[p].physical_id = Some(arn),
                              !.inv[p].pc = "returned"]
    /\ UNCHANGED <<oldVars, sec, pth, tok, prod, nova>>

\* lines 33, 69: the name was taken in the meantime; kafka.create_configuration
\* raises ConflictException, which the handler does not catch
CreateConflict(p) ==
    /\ msk.pc = "ready"
    /\ msk.inv[p].pc = "found"
    /\ msk.inv[p].config_arn = None
    /\ msk.configurations # None
    /\ msk' = [msk EXCEPT !.create_calls = @ + 1,
                          !.inv[p].pc = "raised"]
    /\ UNCHANGED <<oldVars, sec, pth, tok, prod, nova>>

\* lines 45-50: Delete calls nothing and returns the physical id of the
\* event, or the name when the event has none
ReturnDelete(p) ==
    /\ msk.pc = "ready"
    /\ msk.inv[p].pc = "dispatch"
    /\ msk.inv[p].request_type = "Delete"
    /\ msk' = [msk EXCEPT !.inv[p].pc = "returned",
                          !.inv[p].physical_id =
                              Get(msk.inv[p].physical_id, "ConfigurationName")]
    /\ UNCHANGED <<oldVars, sec, pth, tok, prod, nova>>

\* the invocation is over, the execution environment is free again
HandlerEnd(p) ==
    /\ msk.pc = "ready"
    /\ msk.inv[p].pc \in {"returned", "raised"}
    /\ msk' = [msk EXCEPT !.inv[p] = InvIdle]
    /\ UNCHANGED <<oldVars, sec, pth, tok, prod, nova>>

NextMsk ==
    \E p \in Invocations :
        \/ \E r \in RequestTypes, id \in {None, Some(0), Some(1)} :
              HandlerStart(p, r, id)
        \/ FindConfiguration(p)
        \/ ReturnExisting(p)
        \/ CreateConfiguration(p)
        \/ CreateConflict(p)
        \/ ReturnDelete(p)
        \/ HandlerEnd(p)

SpecMsk == InitMsk /\ [][NextMsk]_vars

(***************************************************************************)
(* helpers.sanitize_path of the Rekognition MCP server. A path is a        *)
(* sequence of components; a component is a sequence of pieces, so that    *)
(* str.startswith on the text of a path can be followed ("images_secret"   *)
(* is the pieces "images", "_secret"). No component is a symbolic link     *)
(***************************************************************************)
MaxDepth == 3          \* components of file_path

Dot == <<".">>
DotDot == <<"..">>
PathComponents ==
    {Dot, DotDot, <<"data">>, <<"images">>, <<"images", "_secret">>, <<"x.jpg">>}
\* BASE_DIR: an absolute directory, already in resolved form
BaseDirs == {<<<<"data">>, <<"images">>>>, <<<<"data">>>>}
RelativePaths == UNION {[1..n -> PathComponents] : n \in 0..MaxDepth}
\* file_path: relative, or absolute (a leading '/')
FilePaths == [absolute : BOOLEAN, parts : RelativePaths]

\* Path.resolve() on the components of an absolute path: '.' is dropped,
\* '..' removes the component before it and is dropped at the root
RECURSIVE Resolve(_, _)
Resolve(done, rest) ==
    IF rest = <<>> THEN done
    ELSE LET c == Head(rest)
         IN  IF c = Dot THEN Resolve(done, Tail(rest))
             ELSE IF c = DotDot
                  THEN Resolve(IF done = <<>> THEN done
                               ELSE SubSeq(done, 1, Len(done) - 1), Tail(rest))
                  ELSE Resolve(Append(done, c), Tail(rest))

\* base_path / file_path: an absolute file_path replaces base_path
Join(base_path, file_path) ==
    IF file_path.absolute THEN file_path.parts ELSE base_path \o file_path.parts

\* str(path) of an absolute path, as its pieces
RECURSIVE Str(_)
Str(path) ==
    IF path = <<>> THEN <<>>
    ELSE <<"/">> \o Head(path) \o Str(Tail(path))

\* str.startswith
StartsWith(s, prefix) ==
    /\ Len(prefix) <= Len(s)
    /\ SubSeq(s, 1, Len(prefix)) = prefix

\* variant: the comparison is made component by component
IsRelativeTo(full_path, base_path) ==
    /\ Len(base_path) <= Len(full_path)
    /\ SubSeq(full_path, 1, Len(base_path)) = base_path

\* line 93: str(full_path).startswith(str(base_path))
WithinBase(full_path, base_path) == StartsWith(Str(full_path), Str(base_path))

InitPath ==
    /\ PipeIdle
    /\ tel = TelIdle /\ sess = SessIdle
    /\ gen = GenIdle /\ up = UpIdle /\ hw = HwIdle /\ mem = MemIdle
    /\ sec = SecIdle /\ msk = MskIdle /\ tok = TokIdle /\ prod = ProdIdle
    /\ nova = NovaIdle
    /\ \E file_path \in FilePaths, base_dir \in BaseDirs :
          pth = [pc |-> "called", file_path |-> file_path, base_dir |-> base_dir,
                 base_path |-> <<>>, full_path |-> <<>>]

\* line 90: base_path = Path(base_dir).resolve()
ResolveBase ==
    /\ pth.pc = "called"
    /\ pth' = [pth EXCEPT !.base_path = Resolve(<<>>, pth.base_dir), !.pc = "base"]
    /\ UNCHANGED <<oldVars, sec, msk, tok, prod, nova>>

\* line 93: full_path = (base_path / file_path).resolve()
ResolveFull ==
    /\ pth.pc = "base"
    /\ pth' = [pth EXCEPT !.full_path = Resolve(<<>>, Join(pth.base_path, pth.file_path)),
                          !.pc = "check"]
    /\ UNCHANGED <<oldVars, sec, msk, tok, prod, nova>>

\* lines 95-97: the path is returned
ReturnPath ==
    /\ pth.pc = "check"
    /\ WithinBase(pth.full_path, pth.base_path)
    /\ pth' = [pth EXCEPT !.pc = "returned"]
    /\ UNCHANGED <<oldVars, sec, msk, tok, prod, nova>>

\* lines 95-96, 98-99: ValueError
RaiseValueError ==
    /\ pth.pc = "check"
    /\ ~WithinBase(pth.full_path, pth.base_path)
    /\ pth' = [pth EXCEPT !.pc = "raised"]
    /\ UNCHANGED <<oldVars, sec, msk, tok, prod, nova>>

NextPath == ResolveBase \/ ResolveFull \/ ReturnPath \/ RaiseValueError

SpecPath == InitPath /\ [][NextPath]_vars

(***************************************************************************)
(* generate_telemetry_events on the customer table of generate_all_data    *)
(***************************************************************************)
\* the customer table as TelemetryGenerator gets it from generate_all_data:
\* _save_to_parquet has replaced the preferred_genres lists of the frame by
\* their JSON texts (main.py lines 130-134); a frame built elsewhere holds lists
AffinityCustomers ==
    [customer_id : {CustomerId(0, 0)}, is_active : BOOLEAN,
     preferred_genres : PreferredChoices \cup {JsonDumps(p) : p \in PreferredChoices}]

InitAffinity ==
    /\ PipeIdle /\ SvcIdle
    /\ sess = SessIdle
    /\ gen = GenIdle /\ up = UpIdle /\ hw = HwIdle /\ mem = MemIdle
    /\ \E nt \in TelTitleCounts :
          tel \in [pc : {"loop"},
                   customers_df : {<<c>> : c \in AffinityCustomers},
                   titles_df : TitleTables(nt),
                   num_events : 0..MaxTelEvents,
                   events : {<<>>},
                   draws : {<<>>},
                   df : {<<>>}]

SpecAffinity == InitAffinity /\ [][NextTel]_vars

(***************************************************************************)
(* One call of CampaignGenerator.generate_campaign, with its local         *)
(* variables start_date, end_date, today and status                        *)
(***************************************************************************)
\* random.randint(7, 90): the ends and their neighbours
CallDurations == {7, 8, 89, 90}
\* fake.date_between(start_date='-6m', end_date='today'): days before today
CallOffsets == {0, 1, 7, 8, 9, 89, 90, 91, 180}

InitCampaign ==
    /\ PipeIdle /\ SvcIdle
    /\ tel = TelIdle /\ sess = SessIdle
    /\ up = UpIdle /\ hw = HwIdle /\ mem = MemIdle
    /\ gen = [pc |-> "called", kind |-> "campaign", campaign_type |-> "",
              campaign_duration |-> 0, start_date |-> 0, end_date |-> 0,
              today |-> 0, status |-> "", row |-> None]

\* lines 79-88: campaign_type, campaign_duration, start_date and end_date
DrawDates ==
    /\ gen.pc = "called" /\ gen.kind = "campaign"
    /\ \E t \in CampaignTypes, d \in CallDurations, off \in CallOffsets :
          gen' = [gen EXCEPT !.campaign_type = t, !.campaign_duration = d,
                             !.start_date = TodayOrdinal - off,
                             !.end_date = TodayOrdinal - off + d,
                             !.pc = "dates"]
    /\ UNCHANGED <<pipeVars, tel, sess, up, hw, mem, svcVars>>

\* lines 90-96: today = date.today() and the status
ReadToday ==
    /\ gen.pc = "dates"
    /\ \E m \in MidnightChoices :
          LET today == TodayOrdinal + m
          IN  gen' = [gen EXCEPT !.today = today,
                                 !.status = CampaignStatus(gen.start_date, gen.end_date, today),
                                 !.pc = "status"]
    /\ UNCHANGED <<pipeVars, tel, sess, up, hw, mem, svcVars>>

\* lines 98-172: budget, spend, performance and the returned dict
ReturnCampaign ==
    /\ gen.pc = "status"
    /\ \E u \in Uuids, b \in DailyBudgets(gen.campaign_type),
          c \in CpmChoices(gen.campaign_type), f \in SpendFactors(gen.status) :
          gen' = [gen EXCEPT !.row = generate_campaign(u, 0, gen.campaign_type,
                                         gen.campaign_duration, gen.start_date,
                                         gen.today, b, f, c),
                             !.pc = "campaign_returned"]
    /\ UNCHANGED <<pipeVars, tel, sess, up, hw, mem, svcVars>>

NextCampaign == DrawDates \/ ReadToday \/ ReturnCampaign

SpecCampaign == InitCampaign /\ [][NextCampaign]_vars

(***************************************************************************)
(* MCPManager._get_bearer_token (strands_claude.py) of one MCPManager;     *)
(* time.time() is the wall clock in seconds. The clock may advance while   *)
(* the request to Cognito is under way. A token is the number of the       *)
(* request that obtained it                                                *)
(***************************************************************************)
MaxClockSteps == 3     \* how often the clock advances
MaxTokenCalls == 3     \* calls of _get_bearer_token that are followed

\* 50 * 60 at line 203
token_lifetime == 50 * 60

\* seconds by which the clock advances
TokenClockSteps == {1, 10, 2989}
\* what _init_credentials finds: a gateway or endpoints and the credentials,
\* no MCP configuration, or a gateway whose credentials lack the Cognito keys
Configurations == {"configured", "none", "no_credentials"}

\* variant: a token that is present is always returned
TokenCachedForever(bearer_token, token_expires_at, current_time) == bearer_token # None

\* line 172: self._bearer_token and current_time < self._token_expires_at
TokenCached(bearer_token, token_expires_at, current_time) ==
    bearer_token # None /\ current_time < token_expires_at

\* lines 135-161: self._gateway_url is not None or bool(self._legacy_endpoints)
InitCredentials(configuration) == configuration \in {"configured", "no_credentials"}

\* tok.obtained is the record of the last successful request: the time read
\* by the call that made it, the time of the response and the token
InitToken ==
    /\ PipeIdle
    /\ tel = TelIdle /\ sess = SessIdle
    /\ gen = GenIdle /\ up = UpIdle /\ hw = HwIdle /\ mem = MemIdle
    /\ sec = SecIdle /\ msk = MskIdle /\ pth = PthIdle /\ prod = ProdIdle
    /\ nova = NovaIdle
    /\ \E configuration \in Configurations :
          tok = [pc |-> "ready", configuration |-> configuration, time |-> 0,
                 steps |-> 0, calls |-> 0, requests |-> 0,
                 bearer_token |-> None, token_expires_at |-> 0, current_time |-> 0,
                 obtained |-> None, last |-> NoCall]

TokenClock(dt) ==
    /\ tok.pc \in {"ready", "requesting"}
    /\ tok.steps < MaxClockSteps
    /\ tok' = [tok EXCEPT !.time = @ + dt, !.steps = @ + 1]
    /\ UNCHANGED <<oldVars, sec, msk, pth, prod, nova>>

\* lines 168-169: MCP is not available
RaiseNotAvailable ==
    /\ tok.pc = "ready"
    /\ tok.calls < MaxTokenCalls
    /\ ~InitCredentials(tok.configuration)
    /\ tok' = [tok EXCEPT !.calls = @ + 1, !.current_time = tok.time,
                          !.last = [op |-> "_get_bearer_token", at |-> tok.time,
                                    outcome |-> "raised", token |-> None,
                                    contacted |-> FALSE,
                                    token_before |-> tok.bearer_token,
                                    expires_before |-> tok.token_expires_at,
                                    obtained_before |-> tok.obtained]]
    /\ UNCHANGED <<oldVars, sec, msk, pth, prod, nova>>

\* lines 171-173: the cached token is returned
ReturnCachedToken ==
    /\ tok.pc = "ready"
    /\ tok.calls < MaxTokenCalls
    /\ InitCredentials(tok.configuration)
    /\ TokenCached(tok.bearer_token, tok.token_expires_at, tok.time)
    /\ tok' = [tok EXCEPT !.calls = @ + 1, !.current_time = tok.time,
                          !.last = [op |-> "_get_bearer_token", at |-> tok.time,
                                    outcome |-> "cached", token |-> tok.bearer_token,
                                    contacted |-> FALSE,
                                    token_before |-> tok.bearer_token,
                                    expires_before |-> tok.token_expires_at,
                                    obtained_before |-> tok.obtained]]
    /\ UNCHANGED <<oldVars, sec, msk, pth, prod, nova>>

\* lines 171-198: no valid token; the credentials are read and the request
\* is sent
PostTokenRequest ==
    /\ tok.pc = "ready"
    /\ tok.calls < MaxTokenCalls
    /\ tok.configuration = "configured"
    /\ ~TokenCached(tok.bearer_token, tok.token_expires_at, tok.time)
    /\ tok' = [tok EXCEPT !.calls = @ + 1, !.current_time = tok.time,
                          !.requests = @ + 1, !.pc = "requesting",
                          !.last = [op |-> "_get_bearer_token", at |-> tok.time,
                                    outcome |-> "pending", token |-> None,
                                    contacted |-> TRUE,
                                    token_before |-> tok.bearer_token,
                                    expires_before |-> tok.token_expires_at,
                                    obtained_before |-> tok.obtained]]
    /\ UNCHANGED <<oldVars, sec, msk, pth, prod, nova>>

\* lines 175-183, 209-211: a Cognito key is missing from the credentials,
\* the exception is raised again before any request
RaiseNoCredentials ==
    /\ tok.pc = "ready"
    /\ tok.calls < MaxTokenCalls
    /\ tok.configuration = "no_credentials"
    /\ ~TokenCached(tok.bearer_token, tok.token_expires_at, tok.time)
    /\ tok' = [tok EXCEPT !.calls = @ + 1, !.current_time = tok.time,
                          !.last = [op |-> "_get_bearer_token", at |-> tok.time,
                                    outcome |-> "raised", token |-> None,
                                    contacted |-> FALSE,
                                    token_before |-> tok.bearer_token,
                                    expires_before |-> tok.token_expires_at,
                                    obtained_before |-> tok.obtained]]
    /\ UNCHANGED <<oldVars, sec, msk, pth, prod, nova>>

\* lines 200-205: status 200, the token is stored and returned
TokenObtained ==
    /\ tok.pc = "requesting"
    /\ tok' = [tok EXCEPT !.bearer_token = Some(tok.requests),
                          !.token_expires_at = tok.current_time + token_lifetime,
                          !.obtained = Some([at |-> tok.current_time,
                                             issued_at |-> tok.time,
                                             token |-> Some(tok.requests)]),
                          !.last.outcome = "fresh",
                          !.last.token = Some(tok.requests),
                          !.pc = "ready"]
    /\ UNCHANGED <<oldVars, sec, msk, pth, prod, nova>>

\* lines 188-198, 206-211: another status, or requests.post raises; the
\* exception leaves _get_bearer_token
TokenRequestFails ==
    /\ tok.pc = "requesting"
    /\ tok' = [tok EXCEPT !.last.outcome = "raised", !.pc = "ready"]
    /\ UNCHANGED <<oldVars, sec, msk, pth, prod, nova>>

NextToken ==
    \/ \E dt \in TokenClockSteps : TokenClock(dt)
    \/ RaiseNotAvailable
    \/ ReturnCachedToken
    \/ PostTokenRequest
    \/ RaiseNoCredentials
    \/ TokenObtained
    \/ TokenRequestFails

SpecToken == InitToken /\ [][NextToken]_vars

(***************************************************************************)
(* send_to_msk_producer (lambda/telemetry_generator/handler.py). An event  *)
(* is its position in the list that was passed in                          *)
(***************************************************************************)
MaxInvokes == 3        \* invocations of the producer one call may need

\* batch_size at line 279
producer_batch_size == 100

\* len(events): none, one, and the lengths around the multiples of batch_size
EventCounts ==
    {0, 1, producer_batch_size - 1, MaxInvokes * producer_batch_size}
    \cup {k * producer_batch_size + d : k \in 1..(MaxInvokes - 1), d \in {0, 1}}

\* variant: a slice that includes the element at its end index
SliceInclusive(list, from, to) == SubSeq(list, from + 1, Min(to + 1, Len(list)))

\* list[from:to]
Slice(list, from, to) == SubSeq(list, from + 1, Min(to, Len(list)))

InitProducer ==
    /\ PipeIdle
    /\ tel = TelIdle /\ sess = SessIdle
    /\ gen = GenIdle /\ up = UpIdle /\ hw = HwIdle /\ mem = MemIdle
    /\ sec = SecIdle /\ msk = MskIdle /\ pth = PthIdle /\ tok = TokIdle
    /\ nova = NovaIdle
    /\ \E n \in EventCounts :
          prod = [pc |-> "loop", events |-> [k \in 1..n |-> k], i |-> 0,
                  success_count |-> 0, error_count |-> 0, invoked |-> <<>>]

\* lines 283-284: the batch of this pass of the loop
Batch == Slice(prod.events, prod.i, prod.i + producer_batch_size)

Invoked(outcome) ==
    Append(prod.invoked, [events |-> Batch, batch_number |-> prod.i \div producer_batch_size,
                          outcome |-> outcome])

\* lines 288-300: StatusCode 202 or 200
InvokeAccepted ==
    /\ prod.pc = "loop"
    /\ prod.i < Len(prod.events)
    /\ prod' = [prod EXCEPT !.success_count = @ + Len(Batch),
                            !.invoked = Invoked("accepted"),
                            !.i = @ + producer_batch_size]
    /\ UNCHANGED <<oldVars, sec, msk, pth, tok, nova>>

\* lines 288-298, 301-303: another StatusCode
InvokeRejected ==
    /\ prod.pc = "loop"
    /\ prod.i < Len(prod.events)
    /\ prod' = [prod EXCEPT !.error_count = @ + Len(Batch),
                            !.invoked = Invoked("rejected"),
                            !.i = @ + producer_batch_size]
    /\ UNCHANGED <<oldVars, sec, msk, pth, tok, nova>>

\* lines 288-296, 305-307: lambda_client.invoke raises
InvokeRaises ==
    /\ prod.pc = "loop"
    /\ prod.i < Len(prod.events)
    /\ prod' = [prod EXCEPT !.error_count = @ + Len(Batch),
                            !.invoked = Invoked("failed"),
                            !.i = @ + producer_batch_size]
    /\ UNCHANGED <<oldVars, sec, msk, pth, tok, nova>>

\* line 309
ReturnCounts ==
    /\ prod.pc = "loop"
    /\ prod.i >= Len(prod.events)
    /\ prod' = [prod EXCEPT !.pc = "returned"]
    /\ UNCHANGED <<oldVars, sec, msk, pth, tok, nova>>

NextProducer == InvokeAccepted \/ InvokeRejected \/ InvokeRaises \/ ReturnCounts

SpecProducer == InitProducer /\ [][NextProducer]_vars

(***************************************************************************)
(* NovaActMCPServer (browser_mcp_server.py): the three tools, called one   *)
(* after the other. A handle is the number of the start call that made it; *)
(* nova.session is the record of what the calls did: "none", "active",     *)
(* "start_failed" or "stopped"                                             *)
(***************************************************************************)
MaxToolCalls == 4      \* tool calls that are followed

InitNova ==
    /\ PipeIdle
    /\ tel = TelIdle /\ sess = SessIdle
    /\ gen = GenIdle /\ up = UpIdle /\ hw = HwIdle /\ mem = MemIdle
    /\ sec = SecIdle /\ msk = MskIdle /\ pth = PthIdle /\ tok = TokIdle
    /\ prod = ProdIdle
    /\ nova = [pc |-> "ready", calls |-> 0, browser_client |-> None,
               nova_act |-> None, session |-> "none", acts |-> 0, last |-> NoCall]

ToolCall(name, text, acted) ==
    [op |-> name, text |-> text, acted |-> acted, raised |-> FALSE,
     session_before |-> nova.session]

\* lines 79-111: every step succeeds
StartBrowserSession ==
    /\ nova.pc = "ready" /\ nova.calls < MaxToolCalls
    /\ nova' = [nova EXCEPT !.calls = @ + 1,
                            !.browser_client = Some(nova.calls + 1),
                            !.nova_act = Some(nova.calls + 1),
                            !.session = "active",
                            !.last = ToolCall("start_browser_session", "started", FALSE)]
    /\ UNCHANGED <<oldVars, sec, msk, pth, tok, prod>>

\* lines 81-85, 110-111: an argument is missing or browser_session raises;
\* nothing has been assigned
StartFailsEarly ==
    /\ nova.pc = "ready" /\ nova.calls < MaxToolCalls
    /\ nova' = [nova EXCEPT !.calls = @ + 1,
                            !.session = IF @ = "active" THEN @ ELSE "start_failed",
                            !.last = ToolCall("start_browser_session", "error", FALSE)]
    /\ UNCHANGED <<oldVars, sec, msk, pth, tok, prod>>

\* lines 85-98, 110-111: the browser client exists, then generate_ws_headers,
\* the viewer or NovaAct raises; self.nova_act is not assigned
StartFailsBeforeNovaAct ==
    /\ nova.pc = "ready" /\ nova.calls < MaxToolCalls
    /\ nova' = [nova EXCEPT !.calls = @ + 1,
                            !.browser_client = Some(nova.calls + 1),
                            !.session = IF @ = "active" THEN @ ELSE "start_failed",
                            !.last = ToolCall("start_browser_session", "error", FALSE)]
    /\ UNCHANGED <<oldVars, sec, msk, pth, tok, prod>>

\* lines 120-121
ActionNotStarted ==
    /\ nova.pc = "ready" /\ nova.calls < MaxToolCalls
    /\ nova.nova_act = None
    /\ nova' = [nova EXCEPT !.calls = @ + 1,
                            !.last = ToolCall("browser_action", "not_started", FALSE)]
    /\ UNCHANGED <<oldVars, sec, msk, pth, tok, prod>>

\* lines 113-116, 123-129: nova_act.act(prompt) returns
ActionCompleted ==
    /\ nova.pc = "ready" /\ nova.calls < MaxToolCalls
    /\ nova.nova_act # None
    /\ nova' = [nova EXCEPT !.calls = @ + 1, !.acts = @ + 1,
                            !.last = ToolCall("browser_action", "completed", TRUE)]
    /\ UNCHANGED <<oldVars, sec, msk, pth, tok, prod>>

\* lines 123-131: the prompt is missing or nova_act.act raises
ActionFails ==
    /\ nova.pc = "ready" /\ nova.calls < MaxToolCalls
    /\ nova.nova_act # None
    /\ \E acted \in BOOLEAN :
          nova' = [nova EXCEPT !.calls = @ + 1,
                               !.acts = IF acted THEN @ + 1 ELSE @,
                               !.last = ToolCall("browser_action", "error", acted)]
    /\ UNCHANGED <<oldVars, sec, msk, pth, tok, prod>>

\* lines 133-150: both handles are released where present
StopBrowserSession ==
    /\ nova.pc = "ready" /\ nova.calls < MaxToolCalls
    /\ nova' = [nova EXCEPT !.calls = @ + 1,
                            !.nova_act = None, !.browser_client = None,
                            !.session = IF @ = "none" THEN @ ELSE "stopped",
                            !.last = ToolCall("stop_browser_session", "stopped", FALSE)]
    /\ UNCHANGED <<oldVars, sec, msk, pth, tok, prod>>

\* lines 135-136, 151-152: nova_act.__exit__ raises; neither attribute is
\* reset and browser_client.stop() is not called
StopExitRaises ==
    /\ nova.pc = "ready" /\ nova.calls < MaxToolCalls
    /\ nova.nova_act # None
    /\ nova' = [nova EXCEPT !.calls = @ + 1,
                            !.last = ToolCall("stop_browser_session", "error", FALSE)]
    /\ UNCHANGED <<oldVars, sec, msk, pth, tok, prod>>

\* lines 135-140, 151-152: browser_client.stop() raises; self.nova_act has
\* been reset, self.browser_client has not
StopClientRaises ==
    /\ nova.pc = "ready" /\ nova.calls < MaxToolCalls
    /\ nova.browser_client # None
    /\ nova' = [nova EXCEPT !.calls = @ + 1,
                            !.nova_act = None,
                            !.last = ToolCall("stop_browser_session", "error", FALSE)]
    /\ UNCHANGED <<oldVars, sec, msk, pth, tok, prod>>

NextNova ==
    \/ StartBrowserSession \/ StartFailsEarly \/ StartFailsBeforeNovaAct
    \/ ActionNotStarted \/ ActionCompleted \/ ActionFails
    \/ StopBrowserSession \/ StopExitRaises \/ StopClientRaises

SpecNova == InitNova /\ [][NextNova]_vars

(***************************************************************************)
(* Properties                                                              *)
(***************************************************************************)

RECURSIVE SumRows(_, _)
SumRows(d, paths) ==
    IF paths = {} THEN 0
    ELSE LET p == CHOOSE x \in paths : TRUE
         IN  Len(d[p]) + SumRows(d, paths \ {p})

WrittenPaths == {written[k].path : k \in 1..Len(written)}
TelemetryPaths == {p \in WrittenPaths : IsTelemetryPath(p)}
Contents(w) == [k \in 1..Len(w) |-> w[k].content]

\* C1: two runs of generate_all_data with the same seed and the same counts
\* produce identical customers, titles, telemetry and campaigns tables
C1_SameSeedSameTables ==
    (run = 2 /\ pc = "done") =>
        /\ customers_df = prev.customers
        /\ titles_df = prev.titles
        /\ campaigns_df = prev.campaigns
        /\ Contents(TelemetryWritten(written)) = Contents(prev.telemetry)

\* C2: when generate_all_data has completed, customers.parquet, titles.parquet
\* and campaigns.parquet hold num_customers, num_titles and num_campaigns
\* rows, the rows of the telemetry partition files the run wrote sum to
\* num_telemetry_events, and metadata.json records the seed
C2_RowCounts ==
    pc = "done" =>
        /\ {CustomersFile, TitlesFile, CampaignsFile, MetadataFile} \subseteq DOMAIN disk
        /\ Len(disk[CustomersFile]) = num_customers
        /\ Len(disk[TitlesFile]) = num_titles
        /\ Len(disk[CampaignsFile]) = num_campaigns
        /\ SumRows(disk, TelemetryPaths) = num_telemetry_events
        /\ disk[MetadataFile].seed = seed

C2_Witness ==
    /\ pc = "done"
    /\ num_customers = 1 /\ num_titles = 1 /\ num_campaigns = 1
    /\ num_telemetry_events = MaxEvents
    /\ Cardinality(TelemetryPaths) >= 2

\* the position of a file in the order of the stages
StageRank(p) ==
    IF p = CustomersFile THEN 1
    ELSE IF p = TitlesFile THEN 2
    ELSE IF IsTelemetryPath(p) THEN 3
    ELSE IF p = CampaignsFile THEN 4
    ELSE 5

\* C3: the files of a run are written in the order customers, titles,
\* telemetry partitions, campaigns, metadata; campaigns.parquet is written
\* after the last telemetry batch and metadata.json last, after all others
C3_StageOrder ==
    /\ \A j, k \in 1..Len(written) :
          j < k => \/ StageRank(written[j].path) < StageRank(written[k].path)
                   \/ /\ IsTelemetryPath(written[j].path)
                      /\ IsTelemetryPath(written[k].path)
    /\ TelemetryPaths # {} =>
          /\ Len(written) >= 2
          /\ written[1].path = CustomersFile
          /\ written[2].path = TitlesFile
    /\ CampaignsFile \in WrittenPaths =>
          /\ i = NumBatches(num_telemetry_events, batch_size)
          /\ groups = <<>>
          /\ SumRows(disk, TelemetryPaths) = num_telemetry_events
    /\ MetadataFile \in WrittenPaths =>
          /\ written[Len(written)].path = MetadataFile
          /\ {CustomersFile, TitlesFile, CampaignsFile} \subseteq WrittenPaths
          /\ i = NumBatches(num_telemetry_events, batch_size)
          /\ SumRows(disk, TelemetryPaths) = num_telemetry_events

C3_Witness ==
    /\ MetadataFile \in WrittenPaths
    /\ Cardinality(TelemetryPaths) >= 2
    /\ i >= 2

\* C4: when the write of a telemetry partition fails, every file the run
\* wrote before is on disk with the content it was written with, and
\* metadata.json is not written
C4_NoRollback ==
    pc = "failed_partition" =>
        /\ \A k \in 1..Len(written) :
              /\ written[k].path \in DOMAIN disk
              /\ disk[written[k].path] = written[k].content
        /\ MetadataFile \notin DOMAIN disk
        /\ ~ ENABLED Next

C4_Witness ==
    /\ pc = "failed_partition"
    /\ Len(groups) = 1
    /\ TelemetryPaths # {}
    /\ Cardinality(DOMAIN disk) > Len(written)

\* the path the event's timestamp and the batch index name
ExpectedFile(e, b) ==
    <<"telemetry",
      <<"year=", ZeroPad(e.event_timestamp.year, 4)>>,
      <<"month=", ZeroPad(e.event_timestamp.month, 2)>>,
      <<"day=", ZeroPad(e.event_timestamp.day, 2)>>,
      <<"hour=", ZeroPad(e.event_timestamp.hour, 2)>>,
      <<"batch_", ZeroPad(b, 4), ".parquet">> >>

\* the row of event e in a written file
ExpectedRow(e) ==
    [event_id |-> e.event_id, customer_id |-> e.customer_id, title_id |-> e.title_id,
     event_timestamp |-> StrfTime(e.event_timestamp)]

Occurrences(q, x) == Cardinality({k \in 1..Len(q) : q[k] = x})

\* C5: when the partitions of batch i are written, every event of the batch
\* is in the file its timestamp and the batch index name and in no other
\* file of the batch; no two writes of the run have the same path; no
\* written row has a helper column
C5_Partitioning ==
    /\ (pc = "writing" /\ groups = <<>>) =>
          \A k \in 1..Len(events) :
             LET e == events[k]
                 row == ExpectedRow(e)
                 batchFiles == {n \in 1..Len(written) :
                                   /\ IsTelemetryPath(written[n].path)
                                   /\ written[n].path[6] = ExpectedFile(e, i)[6]}
             IN  \A n \in batchFiles :
                    IF written[n].path = ExpectedFile(e, i)
                    THEN Occurrences(written[n].content, row)
                            = Cardinality({m \in 1..Len(events) :
                                              ExpectedRow(events[m]) = row})
                    ELSE Occurrences(written[n].content, row) = 0
    /\ (pc = "writing" /\ groups = <<>>) =>
          \A k \in 1..Len(events) : ExpectedFile(events[k], i) \in WrittenPaths
    /\ \A j, k \in 1..Len(written) : j # k => written[j].path # written[k].path
    /\ \A k \in 1..Len(written) :
          IsTelemetryPath(written[k].path) =>
             /\ disk[written[k].path] = written[k].content
             /\ \A n \in 1..Len(written[k].content) :
                   DOMAIN written[k].content[n] =
                       {"event_id", "customer_id", "title_id", "event_timestamp"}

\* two batches wrote into the same partition directory
C5_Witness ==
    /\ pc = "writing" /\ groups = <<>> /\ i >= 1
    /\ \E j, k \in 1..Len(written) :
          /\ j < k
          /\ IsTelemetryPath(written[j].path) /\ IsTelemetryPath(written[k].path)
          /\ SubSeq(written[j].path, 1, 5) = SubSeq(written[k].path, 1, 5)

\* C6: the telemetry loop runs ceil(num_telemetry_events / 1,000,000)
\* batches, each asks for 1 to 1,000,000 events, the sizes sum to
\* num_telemetry_events, and no batch and no file for 0 events
C6_Batches ==
    /\ \A k \in 1..Len(requested) : requested[k] >= 1 /\ requested[k] <= 1000000
    /\ Len(requested) = i
    /\ pc = "campaigns" =>
          /\ Len(requested) * 1000000 >= num_telemetry_events
          /\ (Len(requested) - 1) * 1000000 < num_telemetry_events
          /\ SumSeq(requested) = num_telemetry_events
          /\ num_telemetry_events = 0 => (requested = <<>> /\ TelemetryPaths = {})
          /\ num_telemetry_events > 0 => TelemetryPaths # {}

C6_Witness ==
    /\ pc = "campaigns"
    /\ Len(requested) >= 2
    /\ requested[Len(requested)] < batch_size_const

\* C7: every event of generate_telemetry_events carries the customer_id of
\* a customer of the table whose is_active flag is true
C7_ActiveCustomersOnly ==
    \A e \in {tel.events[k] : k \in 1..Len(tel.events)}
             \cup {tel.df[k] : k \in 1..Len(tel.df)} :
        \E n \in 1..Len(tel.customers_df) :
            /\ tel.customers_df[n].customer_id = e.customer_id
            /\ tel.customers_df[n].is_active

C7_Witness ==
    /\ tel.pc = "returned"
    /\ Len(tel.df) = MaxTelEvents
    /\ \E n \in 1..Len(tel.customers_df) : ~ tel.customers_df[n].is_active

\* C8: with an active customer and a non-empty title table, generating an
\* event never fails
C8_SamplingNeverFails ==
    (tel.pc # "idle" /\ ActiveCustomers(tel.customers_df) # <<>> /\ tel.titles_df # <<>>)
        => tel.pc # "raised"

\* C9: a 'complete' session has completion_percentage >= 85
C9_CompleteAtLeast85 ==
    (sess.pc = "returned" /\ sess.result.event_type = "complete")
        => sess.result.completion_percentage >= 8500

\* the watched seconds were truncated, and the percentage is below 86
C9_Witness ==
    /\ sess.pc = "returned"
    /\ sess.result.event_type = "complete"
    /\ sess.result.watch_duration * FracDen < TitleDurationSeconds(sess.title) * sess.fraction
    /\ sess.result.completion_percentage < 8600

\* C10: watch_duration and position never exceed the title's duration in
\* seconds, completion_percentage is in [0, 100], and the event is
\* 'complete' or 'stop'
C10_SessionBounds ==
    sess.pc = "returned" =>
        /\ sess.result.watch_duration <= sess.title.duration_minutes * 60
        /\ sess.result.position <= sess.title.duration_minutes * 60
        /\ sess.result.watch_duration >= 0
        /\ sess.result.completion_percentage >= 0
        /\ sess.result.completion_percentage <= 10000
        /\ sess.result.event_type \in {"complete", "stop"}

C10_Witness ==
    /\ sess.pc = "returned"
    /\ sess.result.event_type = "complete"
    /\ sess.result.watch_duration = sess.title.duration_minutes * 60
    /\ sess.result.completion_percentage = 10000

\* the rows of the table a generator is building or has returned
GenRows(kind) ==
    IF gen.pc # "idle" /\ gen.kind = kind
    THEN {gen.rows[k] : k \in 1..Len(gen.rows)}
    ELSE {}

\* C11: a generated customer has a subscription_end_date exactly when it is
\* not active
C11_EndDateIffInactive ==
    \A c \in GenRows("customers") :
        (c.subscription_end_date # None) <=> (c.is_active = FALSE)

C11_Witness ==
    /\ gen.pc = "returned"
    /\ \E c \in GenRows("customers") : c.is_active /\ c.subscription_end_date = None
    /\ \E c \in GenRows("customers") : ~ c.is_active /\ c.subscription_end_date # None

\* C12: a generated campaign whose status is 'scheduled' has spent nothing
\* and has no impressions, clicks or conversions
C12_ScheduledIsEmpty ==
    \A c \in GenRows("campaigns") :
        c.status = "scheduled" =>
            /\ c.spent_amount = 0
            /\ c.impressions = 0 /\ c.clicks = 0 /\ c.conversions = 0

\* some generated campaign is scheduled
C12_Scheduled ==
    \E c \in GenRows("campaigns") : c.status = "scheduled"

\* C13: season_number and episode_number are present exactly for series
C13_SeasonIffSeries ==
    \A t \in GenRows("titles") :
        /\ (t.season_number # None) <=> (t.title_type = "series")
        /\ (t.episode_number # None) <=> (t.title_type = "series")

C13_Witness ==
    /\ gen.pc = "returned"
    /\ \E t \in GenRows("titles") :
          t.title_type = "series" /\ t.season_number # None /\ t.episode_number # None
    /\ \E t \in GenRows("titles") :
          t.title_type = "movie" /\ t.season_number = None /\ t.episode_number = None

\* C14: no two telemetry events of one call have the same event_id
C14_EventIdsUnique ==
    tel.pc # "idle" =>
        \A j, k \in 1..Len(tel.events) :
            tel.events[j].event_id = tel.events[k].event_id => j = k

\* C15: no two rows of a generated table have the same id
C15_IdsUnique ==
    gen.pc # "idle" =>
        \A j, k \in 1..Len(gen.rows) :
            j # k =>
                CASE gen.kind = "customers" -> gen.rows[j].customer_id # gen.rows[k].customer_id
                  [] gen.kind = "titles" -> gen.rows[j].title_id # gen.rows[k].title_id
                  [] OTHER -> gen.rows[j].campaign_id # gen.rows[k].campaign_id

\* two rows of a returned customer table drew the same 8 characters
C15_Witness ==
    /\ gen.pc = "returned" /\ gen.kind = "customers"
    /\ \E j, k \in 1..Len(gen.rows) :
          j # k /\ gen.rows[j].customer_id[2] = gen.rows[k].customer_id[2]

\* the key the claim gives a file: the prefix, '/', and the components of the
\* file's relative path separated by '/'
ExpectedKey(s3_prefix, file) == s3_prefix \o <<"/">> \o RelPath(file, "/")

\* C17: upload_directory submits one upload for every *.parquet file and
\* every metadata.json under local_dir and for no other file, under the key
\* s3_prefix/relative path, and distinct files get distinct keys
C17_MirrorsTree ==
    up.pc \in {"pool", "returned"} /\ up.exists =>
        /\ {t.local_path : t \in up.files_to_upload} = {f \in up.tree : IsUploadable(f)}
        /\ \A t \in up.files_to_upload : t.s3_key = ExpectedKey(up.s3_prefix, t.local_path)
        /\ \A t1, t2 \in up.files_to_upload :
              t1.local_path # t2.local_path => t1.s3_key # t2.s3_key

\* C18: at most 5 uploads run at a time, the counters count exactly the
\* collected futures, every file is attempted once whatever fails, and on
\* return successful_uploads + failed_uploads is the number of files
C18_PoolAndCounters ==
    up.pc \in {"pool", "returned"} =>
        /\ Cardinality(Running(up)) <= max_workers
        /\ up.successful_uploads
              = Cardinality({t \in up.collected : up.state[t] = "true"})
        /\ up.failed_uploads
              = Cardinality({t \in up.collected : up.state[t] # "true"})
        /\ up.pc = "returned" =>
              /\ \A t \in up.files_to_upload : up.attempts[t] = 1 /\ t \in Finished(up)
              /\ up.successful_uploads + up.failed_uploads
                    = Cardinality(up.files_to_upload)

\* more files than workers, some uploads failed and some succeeded
C18_Witness ==
    /\ up.pc = "returned"
    /\ Cardinality(up.files_to_upload) > max_workers
    /\ up.failed_uploads > 0 /\ up.successful_uploads > 0

\* C16 as claimed, for the uploads: an upload that fails leaves
\* upload_directory as an uncaught exception
C16_UploadErrorsPropagate ==
    up.pc # "idle" =>
        ((\E t \in up.files_to_upload : up.state[t] \in {"false", "exception"})
            => up.pc = "raised")

\* C16: a failed write of the generator ends the run where it happens, with
\* no handler and no retry; a failed upload is caught in upload_file and
\* returned as False, is attempted once, is counted in failed_uploads, and
\* upload_directory returns normally
C16_WriteErrorsPropagateUploadErrorsCounted ==
    /\ pc \in {"failed", "failed_partition"} => ~ ENABLED Next
    /\ up.pc # "idle" =>
          /\ up.pc \in {"call", "pool", "returned"}
          /\ \A t \in up.files_to_upload :
                up.state[t] # "exception" /\ up.attempts[t] <= 1
          /\ up.pc = "returned" =>
                up.failed_uploads
                    = Cardinality({t \in up.files_to_upload : up.state[t] = "false"})

\* the generator stopped at a failed write and an upload of what it left failed
C16_Witness ==
    /\ pc \in {"failed", "failed_partition"}
    /\ written # <<>>
    /\ up.pc = "returned"
    /\ up.failed_uploads > 0

\* 0.3*g(7,2) + 1.0*g(20,3) + 0.4*g(23,2) at hour h, in ten-thousandths
ClaimedWeight(h) == Gauss(h, 7, 2) * 30 + Gauss(h, 20, 3) * 100 + Gauss(h, 23, 2) * 40

ClaimedSum == SumSeq([k \in 1..24 |-> ClaimedWeight(k - 1)])

\* C19: the returned weights are 24 non-negative values that sum to 1 and
\* are proportional to 0.3*g(7,2) + 1.0*g(20,3) + 0.4*g(23,2)
C19_HourlyWeights ==
    hw.pc = "returned" =>
        /\ Len(hw.result) = 24
        /\ \A k \in 1..24 : hw.result[k].num >= 0 /\ hw.result[k].den > 0
        /\ SumSeq([k \in 1..24 |-> hw.result[k].num]) = hw.result[1].den
        /\ \A k \in 1..24 :
              hw.result[k].num * ClaimedSum = ClaimedWeight(k - 1) * hw.result[k].den

\* C20: extract_session_info returns the session id and the actor id as
\* supplied: those of the metadata block when it carries them, the direct
\* payload fields when there is no block, the defaults when there is neither
C20_ReturnsAsSupplied ==
    mem.pc = "returned" =>
        LET p == mem.payload
        IN  /\ (p.meta.valid /\ p.meta.sid # None /\ p.meta.uid # None) =>
                  mem.session_id = p.meta.sid[1] /\ mem.actor_id = p.meta.uid[1]
            /\ (~ p.meta.present /\ p.sessionId # None /\ p.actorId # None) =>
                  mem.session_id = p.sessionId[1] /\ mem.actor_id = p.actorId[1]
            /\ (~ p.meta.present /\ p.sessionId = None /\ p.session_id = None
                    /\ p.actorId = None /\ p.userId = None /\ p.user_id = None) =>
                  mem.session_id = DefaultSession /\ mem.actor_id = AnonymousUser

\* the AWS pattern [a-zA-Z0-9][a-zA-Z0-9-_/]* quoted at line 265
MatchesAwsPattern(s) ==
    /\ s # <<>>
    /\ s[1] \in AlnumPieces \cup {"user_"}
    /\ \A k \in 1..Len(s) :
          s[k] \in AlnumPieces \cup {"user_", "_at_", "_dot_", "_plus_", "-", "_", "/"}

\* C21: for every payload extract_session_info returns rather than raises,
\* and the actor id it returns matches [a-zA-Z0-9][a-zA-Z0-9-_/]*
C21_ActorIdMatchesPattern ==
    /\ mem.pc # "raised"
    /\ mem.pc = "returned" => MatchesAwsPattern(mem.actor_id)

\* the claim's reading of a call: a retrieval at time t with TTL d is
\* still valid at a time before t + d
StillValid(retrieved, name, at) ==
    /\ retrieved[name] # None
    /\ at < retrieved[name][1].at + TtlWhenGiven(retrieved[name][1].cache_ttl)

\* C22: after a successful retrieval at t with TTL d (1 hour when cache_ttl
\* is not given) get_secret returns the cached data without calling AWS
\* before t + d and calls AWS at or after t + d; a failed retrieval raises
\* and leaves the cache unchanged; after clear_cache the next call calls AWS
C22_CachePerNameWithTtl ==
    sec.last.op = "get_secret" =>
        LET l == sec.last
        IN  /\ StillValid(l.retrieved_before, l.name, l.at) =>
                  /\ l.outcome = "cached"
                  /\ l.data = l.retrieved_before[l.name][1].data
            /\ ~StillValid(l.retrieved_before, l.name, l.at) =>
                  l.outcome \in {"retrieved", "raised"}
            /\ l.outcome = "raised" => sec.cache = l.cache_before

\* C23: for any sequence of Create, Update and Delete events with the same
\* ConfigurationName, two concurrent Create/Update invocations included,
\* create_configuration is called at most once, every Create/Update returns
\* the ARN of that one configuration as PhysicalResourceId, and a Delete
\* event never creates or deletes a configuration
C23_Idempotent ==
    msk.pc = "ready" =>
        /\ msk.create_calls <= 1
        /\ msk.deleted = 0
        /\ \A p \in Invocations :
              /\ msk.inv[p].pc # "raised"
              /\ (msk.inv[p].pc = "returned" /\ msk.inv[p].request_type # "Delete") =>
                    msk.inv[p].physical_id = msk.configurations
              /\ (msk.inv[p].pc = "returned" /\ msk.inv[p].request_type = "Delete") =>
                    msk.inv[p].config_arn = None

\* C24: with a base_dir, sanitize_path returns a path only if the resolved
\* path is base_dir itself or lies inside its directory tree; every
\* file_path that resolves outside base_dir raises ValueError
C24_NoTraversal ==
    pth.pc = "returned" => IsRelativeTo(pth.full_path, pth.base_path)

\* the list a preferred_genres value stands for
EquivalentList(preferred_genres) ==
    IF preferred_genres \in PreferredChoices THEN preferred_genres
    ELSE CHOOSE p \in PreferredChoices : JsonDumps(p) = preferred_genres

\* C25: the title of an event has a genre of the customer's preferred list
\* exactly when the 80% draw succeeded and a title with such a genre
\* exists; a title of the fallback branch never has a preferred genre; a
\* JSON-encoded preferred_genres selects as the equivalent list does
C25_GenreAffinity ==
    \A k \in 1..Len(tel.draws) :
        LET d == tel.draws[k]
            preferred == EquivalentList(d.preferred_genres)
            exists == \E t \in 1..Len(tel.titles_df) : IsIn(tel.titles_df[t].genre, preferred)
        IN  IsIn(d.title.genre, preferred) <=> (d.hit /\ exists)

\* both branches were taken for a customer whose preferred_genres is a JSON text
C25_Witness ==
    /\ tel.pc = "returned"
    /\ Len(tel.draws) = 2
    /\ IsStr(tel.draws[1].preferred_genres)
    /\ tel.draws[1].hit /\ IsIn(tel.draws[1].title.genre, EquivalentList(tel.draws[1].preferred_genres))
    /\ ~tel.draws[2].hit /\ ~IsIn(tel.draws[2].title.genre, EquivalentList(tel.draws[2].preferred_genres))

\* C26: every event_timestamp of generate_telemetry_events lies between the
\* time of generation minus date_range_days days and the time of
\* generation, also after hour, minute and second have been replaced
C26_TimestampsInRange ==
    \A k \in 1..Len(tel.events) :
        /\ TsLeq(tel.events[k].event_timestamp, now)
        /\ TsLeq(MinusDays(now, date_range_days), tel.events[k].event_timestamp)

\* C27: generate_campaign never produces a 'scheduled' campaign: start_date
\* is on or before today, the status is 'completed' when end_date < today
\* and 'active' otherwise, and days_run of an active campaign lies between
\* 0 and campaign_duration inclusive
C27_NeverScheduled ==
    /\ gen.pc \in {"status", "campaign_returned"} =>
          /\ gen.status # "scheduled"
          /\ gen.start_date <= gen.today
          /\ gen.status = (IF gen.end_date < gen.today THEN "completed" ELSE "active")
    /\ gen.pc = "campaign_returned" =>
          /\ gen.row.status = gen.status
          /\ gen.row.status = "active" =>
                (0 <= gen.row.days_run /\ gen.row.days_run <= gen.campaign_duration)

\* an active campaign that ends today: days_run is campaign_duration
C27_Witness ==
    /\ gen.pc = "campaign_returned"
    /\ gen.row.status = "active"
    /\ gen.end_date = gen.today
    /\ gen.row.days_run = gen.campaign_duration

\* a token obtained by a call at time t is valid before t + 50 minutes
TokenValid(obtained, at) ==
    obtained # None /\ at < obtained[1].at + token_lifetime

\* C28: a token obtained at time t is returned without contacting Cognito
\* on every call before t + 50 minutes; a call at or after t + 50 minutes
\* requests a new token; a failed request raises and leaves the cached
\* token and its expiry time unchanged; a token older than 50 minutes is
\* never returned
C28_TokenCache ==
    (tok.pc = "ready" /\ tok.last.op = "_get_bearer_token") =>
        LET l == tok.last
        IN  /\ TokenValid(l.obtained_before, l.at) =>
                  /\ l.outcome = "cached"
                  /\ ~l.contacted
                  /\ l.token = l.obtained_before[1].token
            /\ (l.obtained_before # None /\ ~TokenValid(l.obtained_before, l.at)) =>
                  l.contacted
            /\ l.outcome = "raised" =>
                  /\ tok.bearer_token = l.token_before
                  /\ tok.token_expires_at = l.expires_before
            /\ l.outcome = "cached" =>
                  l.at - l.obtained_before[1].issued_at < token_lifetime
            /\ l.outcome \in {"cached", "fresh", "raised"}

\* a call exactly 50 minutes after the one that obtained the token has
\* obtained a new one
C28_Witness ==
    /\ tok.pc = "ready"
    /\ tok.last.op = "_get_bearer_token"
    /\ tok.last.outcome = "fresh"
    /\ tok.last.obtained_before # None
    /\ tok.last.at = tok.last.obtained_before[1].at + token_lifetime

\* the events of the batches that were sent, in the order of sending
RECURSIVE SentEvents(_)
SentEvents(invoked) ==
    IF invoked = <<>> THEN <<>>
    ELSE SentEvents(SubSeq(invoked, 1, Len(invoked) - 1)) \o invoked[Len(invoked)].events

\* C29: the events are split into consecutive batches of at most 100 so
\* that every event is in exactly one batch and the order is kept; a failed
\* or rejected invocation does not stop later batches; on return
\* success_count + error_count is the number of events passed in
C29_BatchesCoverEvents ==
    prod.pc # "idle" =>
        /\ \A b \in 1..Len(prod.invoked) :
              /\ Len(prod.invoked[b].events) \in 1..producer_batch_size
              /\ prod.invoked[b].batch_number = b - 1
        /\ SentEvents(prod.invoked)
              = SubSeq(prod.events, 1, Min(prod.i, Len(prod.events)))
        /\ prod.pc = "returned" =>
              /\ SentEvents(prod.invoked) = prod.events
              /\ prod.success_count + prod.error_count = Len(prod.events)

\* a call whose first invocation failed, whose second was rejected and
\* whose last batch, shorter than 100, was accepted
C29_Witness ==
    /\ prod.pc = "returned"
    /\ Len(prod.invoked) = 3
    /\ prod.invoked[1].outcome = "failed"
    /\ prod.invoked[2].outcome = "rejected"
    /\ prod.invoked[3].outcome = "accepted"
    /\ Len(prod.invoked[3].events) < producer_batch_size

\* C30: a browser_action issued when no session is active (never started,
\* start failed before Nova Act was initialised, or already stopped)
\* returns the 'Browser session not started' message and performs no
\* browser action; stop_browser_session clears both the Nova Act handle and
\* the browser client, repeatedly or with no session; no tool call raises
C30_SessionLifecycle ==
    nova.pc = "ready" =>
        /\ (nova.last.op = "browser_action" /\ nova.last.session_before # "active") =>
              (nova.last.text = "not_started" /\ ~nova.last.acted)
        /\ nova.last.op = "stop_browser_session" =>
              (nova.nova_act = None /\ nova.browser_client = None)
        /\ nova.last.op # "none" => ~nova.last.raised

====
